---- MODULE Spec2Model ----
(***************************************************************************)
(* A model of the settlement-prediction core of the case-analysis          *)
(* application: FeatureExtractor (src/feature_extraction.py),              *)
(* ConfidenceScorer (src/confidence_scoring.py) and EnhancedRAGSystem      *)
(* (src/enhanced_rag_system.py).                                           *)
(*                                                                         *)
(* Representation of numbers.  Python floats are modelled in fixed point:  *)
(*   - a score on the unit scale (0.0 .. 1.0) is an integer number of      *)
(*     ten-thousandths (ONE = 1.0);                                        *)
(*   - an overall / consensus score on the 1..10 scale is an integer       *)
(*     number of hundred-thousandths (TEN5 = 10.0, so that the weighted    *)
(*     sum of unit scores by weights in hundredths is exact);              *)
(*   - money is an integer number of dollars.                              *)
(* Representation of Python values.  A value that may be absent from a     *)
(* dict, None, a number or a string is a record with a tag t.  A text is   *)
(* described by what the code reads of it: its number of words and the     *)
(* set of indicator substrings (cues) its lower-cased form contains.       *)
(***************************************************************************)
EXTENDS Integers, Sequences, FiniteSets, TLC

VARIABLES now, pca_initialized, last, memo

vars == <<now, pca_initialized, last, memo>>

\* ------------------------------------------------------------------------
\* Fixed-point arithmetic
\* ------------------------------------------------------------------------

\* 1.0 on the unit scale (ten-thousandths).
ONE == 100 * 100

\* 10.0 on the overall-score scale (hundred-thousandths).
TEN5 == 10 * 100 * 1000

Min2(a, b) == IF a <= b THEN a ELSE b

Max2(a, b) == IF a >= b THEN a ELSE b

\* max(lo, min(hi, x)), the clamp idiom of the source
Clamp(x, lo, hi) == Max2(lo, Min2(hi, x))

Abs(x) == IF x < 0 THEN -x ELSE x

RECURSIVE SumSeq(_)
SumSeq(s) == IF s = <<>> THEN 0 ELSE Head(s) + SumSeq(Tail(s))

RECURSIVE MinSeq(_)
MinSeq(s) == IF Len(s) = 1 THEN s[1] ELSE Min2(Head(s), MinSeq(Tail(s)))

RECURSIVE MaxSeq(_)
MaxSeq(s) == IF Len(s) = 1 THEN s[1] ELSE Max2(Head(s), MaxSeq(Tail(s)))

\* the elements of a finite set, in some fixed order
RECURSIVE SetToSeq(_)
SetToSeq(S) ==
    IF S = {} THEN <<>>
    ELSE LET x == CHOOSE y \in S : TRUE IN <<x>> \o SetToSeq(S \ {x})

\* floor of the square root, by bisection on [lo, hi]
RECURSIVE SqrtBetween(_, _, _)
SqrtBetween(n, lo, hi) ==
    IF lo >= hi THEN lo
    ELSE LET mid == (lo + hi + 1) \div 2
         IN  IF mid * mid <= n THEN SqrtBetween(n, mid, hi)
             ELSE SqrtBetween(n, lo, mid - 1)

ISqrt(n) == SqrtBetween(n, 0, Min2(n, 46340))

\* math.sqrt on the unit scale: sqrt(x / ONE) * ONE
SqrtU(x) == ISqrt(x * ONE)

RECURSIVE Pow2(_)
Pow2(k) == IF k <= 0 THEN 1 ELSE 2 * Pow2(k - 1)

\* the k with 2^k <= n < 2^(k+1), for n >= 1
RECURSIVE Log2Floor(_)
Log2Floor(n) == IF n < 2 THEN 0 ELSE 1 + Log2Floor(n \div 2)

\* ln(m / ONE) * ONE for ONE <= m < 2 * ONE, by ln x = 2 atanh((x-1)/(x+1))
LnMantissaU(m) ==
    LET t  == ((m - ONE) * ONE) \div (m + ONE)
        t2 == (t * t) \div ONE
        t3 == (t * t2) \div ONE
        t5 == (t3 * t2) \div ONE
        t7 == (t5 * t2) \div ONE
    IN  2 * (t + t3 \div 3 + t5 \div 5 + t7 \div 7)

\* ln 2 on the unit scale
Ln2U == LnMantissaU(2 * ONE)

\* math.log of a positive number of dollars, on the unit scale
LnDollars(d) ==
    LET k == Log2Floor(d)
        mm == (d * ONE) \div Pow2(k)
    IN  k * Ln2U + LnMantissaU(mm)

\* exp(r / ONE) * ONE for 0 <= r < Ln2U, by its Taylor series
ExpFractionU(r) ==
    LET a2 == (r * r) \div (2 * ONE)
        a3 == (a2 * r) \div (3 * ONE)
        a4 == (a3 * r) \div (4 * ONE)
        a5 == (a4 * r) \div (5 * ONE)
        a6 == (a5 * r) \div (6 * ONE)
    IN  ONE + r + a2 + a3 + a4 + a5 + a6

\* math.exp of x (unit scale), in whole dollars: floor(exp(x / ONE))
ExpDollars(x) ==
    LET k == x \div Ln2U
        r == x - k * Ln2U
        f == ExpFractionU(r)
    IN  IF k >= 4 THEN (f * Pow2(k - 4)) \div 625
        ELSE IF k >= 0 THEN (f * Pow2(k)) \div ONE
        ELSE f \div (ONE * Pow2(-k))

\* ------------------------------------------------------------------------
\* Python values and exceptions
\* ------------------------------------------------------------------------

\* a key that is not in the dict
Absent == [t |-> "absent", n |-> 0, words |-> 0, cues |-> {}]

\* None
Null == [t |-> "null", n |-> 0, words |-> 0, cues |-> {}]

\* an int or a float
Num(x) == [t |-> "num", n |-> x, words |-> 0, cues |-> {}]

\* a str of w words whose lower-cased form contains the substrings c
Text(w, c) == [t |-> "str", n |-> 0, words |-> w, cues |-> c]

\* a str that spells the number x, such as "20000"
NumText(x) == [t |-> "str", n |-> x, words |-> 1, cues |-> {"#numeric"}]

\* dict.get(key, ""): the default for a key that is absent
GetOrEmpty(v) == IF v.t = "absent" THEN Text(0, {}) ELSE v

\* bool(v) of a value that is in the dict
Truthy(v) ==
    CASE v.t = "null" -> FALSE
      [] v.t = "num"  -> v.n # 0
      [] v.t = "str"  -> v.words > 0
      [] OTHER        -> FALSE

\* key in d and d[key]
PresentAndTruthy(v) == v.t # "absent" /\ Truthy(v)

\* the exception float(v) raises, "" when it returns
FloatExc(v) ==
    CASE v.t = "null" -> "TypeError"
      [] v.t = "str" /\ "#numeric" \notin v.cues -> "ValueError"
      [] OTHER -> ""

\* the exception v.lower() or v.split() raises, "" when it returns
StrMethodExc(v) == IF v.t = "str" THEN "" ELSE "AttributeError"

\* the first exception of a sequence of steps, "" when none raises
RECURSIVE FirstExc(_)
FirstExc(s) ==
    IF s = <<>> THEN ""
    ELSE IF Head(s) # "" THEN Head(s) ELSE FirstExc(Tail(s))

Ok(v) == [ok |-> TRUE, exc |-> "", val |-> v]

Raise(e) == [ok |-> FALSE, exc |-> e, val |-> <<>>]

\* ------------------------------------------------------------------------
\* Extracted features (the nested dict built by FeatureExtractor)
\* ------------------------------------------------------------------------

Groups == {"case_characteristics", "party_specific", "evidence_based",
           "procedural_strategic", "composite"}

\* {}: no group, no key
EmptyFeatures ==
    [groups |-> {},
     jurisdiction |-> [has |-> FALSE, jurisdiction |-> "unknown", has_data |-> FALSE,
                       jurisdiction_data |-> <<>>, venue_type |-> "unknown"],
     case_type |-> [has |-> FALSE, has_primary |-> FALSE, primary_type |-> "unknown",
                    subtype |-> "unknown", complexity |-> "standard"],
     temporal |-> [has |-> FALSE, has_days |-> FALSE, days_since_filing |-> 0,
                   time_to_trial_estimate |-> 0,
                   statute_of_limitations_risk |-> "unknown"],
     damages |-> [has |-> FALSE, economic_damages |-> 0,
                  estimated_non_economic_damages |-> 0,
                  total_estimated_damages |-> 0, damage_multiplier |-> ONE],
     defendant |-> [has |-> FALSE, insurance_involved |-> FALSE, deep_pockets |-> 0,
                    public_relations_risk |-> 0],
     attorney |-> [has |-> FALSE, representation_asymmetry |-> 0],
     evidence_strength |-> [has |-> FALSE, has_overall |-> FALSE, overall_strength |-> 5000,
                            has_gaps |-> FALSE, evidence_gaps |-> <<>>],
     expert_opinion |-> [has |-> FALSE, plaintiff_expert_strength |-> 0,
                         defendant_expert_strength |-> 0, expert_advantage |-> 0],
     witness |-> [has |-> FALSE, witness_credibility |-> 5000],
     procedural_posture |-> [has |-> FALSE, stage |-> "pre_filing",
                             procedural_advantage |-> 0],
     settlement_pressure_index |-> [has |-> FALSE, overall_index |-> 5 * ONE],
     case_strength_ratio |-> [has |-> FALSE, plaintiff_strength |-> 5 * ONE,
                              defendant_strength |-> 5 * ONE, strength_ratio |-> ONE],
     litigation_risk_profile |-> [has |-> FALSE, outcome_uncertainty |-> "medium",
                                  damage_range_width |-> "medium",
                                  precedential_impact |-> "limited",
                                  cost_benefit_alignment |-> "neutral"]]

\* "case_characteristics" in f and key in f["case_characteristics"], and alike
HasKey(f, group, key) == group \in f.groups /\ f[key].has

\* ------------------------------------------------------------------------
\* Case records (the case_data dict)
\* ------------------------------------------------------------------------

\* a case record without any key; similar_cases is the key the scorer reads
EmptyCase ==
    [title |-> Absent, court |-> Absent, date_filed |-> Absent, judge |-> Absent,
     claim_type |-> Absent, facts |-> Absent, injury_details |-> Absent,
     injury_types |-> <<>>, damages |-> Absent, insurance_company |-> Absent,
     plaintiff_medical_expert |-> Absent, defendant_medical_expert |-> Absent,
     plaintiff_non_medical_expert |-> Absent, defendant_non_medical_expert |-> Absent,
     has_similar_cases |-> FALSE, similar_cases |-> <<>>]

\* ------------------------------------------------------------------------
\* FeatureExtractor
\* ------------------------------------------------------------------------

\* indicator in text, for a str
In(cue, text) == cue \in text.cues

AnyIn(cues, text) == \E c \in cues : In(c, text)

\* the number of the indicators of a list that are in the text
CountIn(cues, text) == Cardinality({c \in cues : In(c, text)})

\* self.jurisdiction_data; jury_favorability on the unit scale
jurisdiction_data ==
    "california" :> [avg_settlement |-> 75000, jury_favorability |-> 6500,
                     damage_caps |-> [medical_malpractice |-> 250000]]
    @@ "new york" :> [avg_settlement |-> 85000, jury_favorability |-> 6000,
                      damage_caps |-> <<>>]
    @@ "texas" :> [avg_settlement |-> 65000, jury_favorability |-> 4500,
                   damage_caps |-> [non_economic |-> 750000]]

\* the state names of state_pattern a court text of the model can contain
StateNames == {"california", "new york", "texas", "ohio"}

\* the exception extract_jurisdiction_features raises: re.search on a court
\* that is truthy and no str
jurisdiction_exc(case_data) ==
    LET court == GetOrEmpty(case_data.court)
    IN  IF court.t = "num" /\ Truthy(court) THEN "TypeError" ELSE ""

\* the venue type with the county and municipal cues tested before the others
venue_type_local_first(court) ==
    IF In("county", court) \/ In("municipal", court) THEN "local"
    ELSE IF In("federal", court) THEN "federal"
    ELSE IF In("supreme", court) THEN "state_supreme"
    ELSE IF In("appeal", court) THEN "appellate"
    ELSE IF In("district", court) \/ In("circuit", court) THEN "trial"
    ELSE "unknown"

venue_type_of(court) ==
    IF In("federal", court) THEN "federal"
    ELSE IF In("supreme", court) THEN "state_supreme"
    ELSE IF In("appeal", court) THEN "appellate"
    ELSE IF In("district", court) \/ In("circuit", court) THEN "trial"
    ELSE IF In("county", court) \/ In("municipal", court) THEN "local"
    ELSE "unknown"

\* a court text of the model names at most one state
extract_jurisdiction_features(case_data) ==
    LET court == GetOrEmpty(case_data.court)
        named == court.cues \cap StateNames
        state == CHOOSE st \in named : TRUE
    IN  IF court.t = "str" /\ Truthy(court)
        THEN [has |-> TRUE,
              jurisdiction |-> IF named # {} THEN state ELSE "unknown",
              has_data |-> named # {} /\ state \in DOMAIN jurisdiction_data,
              jurisdiction_data |-> IF named # {} /\ state \in DOMAIN jurisdiction_data
                                    THEN jurisdiction_data[state] ELSE <<>>,
              venue_type |-> venue_type_of(court)]
        ELSE [has |-> TRUE, jurisdiction |-> "unknown", has_data |-> FALSE,
              jurisdiction_data |-> <<>>, venue_type |-> "unknown"]

\* the exception extract_case_type_features raises: claim_type.lower() and
\* facts.split()
case_type_exc(case_data) ==
    LET facts == GetOrEmpty(case_data.facts)
    IN  FirstExc(<<StrMethodExc(GetOrEmpty(case_data.claim_type)),
                   IF facts.t = "num" /\ Truthy(facts) THEN "AttributeError" ELSE "">>)

primary_type_of(claim_type) ==
    IF In("personal injury", claim_type) \/ In("injury", claim_type)
    THEN "personal_injury"
    ELSE IF In("contract", claim_type) \/ In("agreement", claim_type)
    THEN "contract_dispute"
    ELSE IF In("employment", claim_type) \/ In("worker", claim_type)
    THEN "employment"
    ELSE "unknown"

subtype_of(primary, ct) ==
    CASE primary = "personal_injury" ->
            IF In("vehicle", ct) \/ In("car", ct) \/ In("auto", ct) THEN "motor_vehicle"
            ELSE IF In("slip", ct) \/ In("fall", ct) THEN "slip_fall"
            ELSE IF In("medical", ct) \/ In("malpractice", ct) THEN "medical_malpractice"
            ELSE IF In("product", ct) THEN "product_liability"
            ELSE IF In("work", ct) \/ In("employment", ct) THEN "workplace"
            ELSE "unknown"
      [] primary = "contract_dispute" ->
            IF In("breach", ct) THEN "breach"
            ELSE IF In("performance", ct) THEN "performance"
            ELSE IF In("payment", ct) THEN "payment"
            ELSE IF In("warranty", ct) THEN "warranty"
            ELSE "unknown"
      [] primary = "employment" ->
            IF In("discrimination", ct) THEN "discrimination"
            ELSE IF In("harassment", ct) THEN "harassment"
            ELSE IF In("termination", ct) \/ In("fired", ct) THEN "wrongful_termination"
            ELSE IF In("wage", ct) \/ In("pay", ct) THEN "wage_dispute"
            ELSE "unknown"
      [] OTHER -> "unknown"

\* the if / elif chain on the word count of the facts
complexity_of(word_count) ==
    IF word_count > 500 THEN "complex"
    ELSE IF word_count > 1000 THEN "novel"
    ELSE "standard"

extract_case_type_features(case_data) ==
    LET ct == GetOrEmpty(case_data.claim_type)
        facts == GetOrEmpty(case_data.facts)
        primary == primary_type_of(ct)
    IN  [has |-> TRUE, has_primary |-> TRUE, primary_type |-> primary,
         subtype |-> subtype_of(primary, ct),
         complexity |-> IF Truthy(facts) THEN complexity_of(facts.words)
                        ELSE "standard"]

\* self.case_type_data[...]["avg_duration"] in months, 18 for an unknown type
avg_duration(primary) ==
    CASE primary = "personal_injury" -> 18
      [] primary = "contract_dispute" -> 14
      [] primary = "employment" -> 22
      [] OTHER -> 18

\* the formats datetime.strptime is tried with, in order
date_formats == <<"%Y-%m-%d", "%m/%d/%Y", "%d-%m-%Y", "%B %d, %Y">>

\* A date text carries the format it is written in as its cue and the day it
\* names as n (a day number on the scale of the clock).
DateText(fmt, day) == [t |-> "str", n |-> day, words |-> 1, cues |-> {fmt}]

\* a format of the list parses the text
date_parses(date_filed) ==
    date_filed.t = "str" /\ \E i \in 1..Len(date_formats) : In(date_formats[i], date_filed)

\* clock is datetime.now(), in days
extract_temporal_features(case_data, clock) ==
    LET date_filed == GetOrEmpty(case_data.date_filed)
        has_days == Truthy(date_filed) /\ date_parses(date_filed)
        days == clock - date_filed.n
        primary == extract_case_type_features(case_data).primary_type
        \* months_since_filing = days / 30.44, on the unit scale
        months == (days * 100 * ONE) \div 3044
    IN  [has |-> TRUE, has_days |-> has_days,
         days_since_filing |-> IF has_days THEN days ELSE 0,
         time_to_trial_estimate |->
             IF has_days THEN Max2(0, avg_duration(primary) * ONE - months) ELSE 0,
         statute_of_limitations_risk |->
             IF primary = "personal_injury" /\ has_days
             THEN (IF days * 100 * 2 > 5 * 36525 THEN "high"
                   ELSE IF days * 100 * 2 > 3 * 36525 THEN "medium"
                   ELSE "low")
             ELSE "unknown"]

\* self.injury_severity: (min + max) / 2 of a known injury, on the unit scale
known_injuries ==
    <<"whiplash", "fracture", "concussion", "soft_tissue", "spinal",
      "traumatic_brain_injury", "amputation", "psychological">>

injury_midpoint(known) ==
    CASE known = "whiplash" -> 4 * ONE
      [] known = "fracture" -> 6 * ONE
      [] known = "concussion" -> 5 * ONE
      [] known = "soft_tissue" -> 3 * ONE
      [] known = "spinal" -> 8 * ONE
      [] known = "traumatic_brain_injury" -> 85 * (ONE \div 10)
      [] known = "amputation" -> 9 * ONE
      [] known = "psychological" -> 6 * ONE

\* the weights of severity_indicators, on the unit scale
severity_indicators ==
    [severe |-> 30000, significant |-> 25000, serious |-> 25000, moderate |-> 15000,
     mild |-> 5000, minor |-> 5000, permanent |-> 30000, temporary |-> 10000,
     chronic |-> 20000, acute |-> 15000, surgery |-> 25000,
     hospitalization |-> 20000, therapy |-> 10000, pain |-> 10000,
     disability |-> 25000, impairment |-> 20000]

\* the first known injury whose name is in the injury string, "" when none
RECURSIVE first_known_injury(_, _)
first_known_injury(i, injury) ==
    IF i > Len(known_injuries) THEN ""
    ELSE IF In(known_injuries[i], injury) THEN known_injuries[i]
    ELSE first_known_injury(i + 1, injury)

\* injury_types is a sequence of strs; injury_details a str
calculate_injury_severity(injury_types, injury_details) ==
    LET matched == SelectSeq(injury_types, LAMBDA x : first_known_injury(1, x) # "")
        total == SumSeq([i \in 1..Len(matched) |->
                            injury_midpoint(first_known_injury(1, matched[i]))])
        found == {k \in DOMAIN severity_indicators : In(k, injury_details)}
        detail_score == SumSeq([i \in 1..Len(SetToSeq(found)) |->
                                   severity_indicators[SetToSeq(found)[i]]])
        severity == IF matched # <<>> THEN total \div Len(matched)
                    ELSE IF found # {}
                    THEN Min2(10 * ONE, (detail_score * 2) \div Cardinality(found))
                    ELSE 3 * ONE
    IN  Min2(10 * ONE, severity)

\* the exception extract_damage_features raises: float(damages), the loop over
\* injury_types and injury_details.lower() when no known injury matched
damage_exc(case_data) ==
    LET damages == IF case_data.damages.t = "absent" THEN Num(0) ELSE case_data.damages
        primary == extract_case_type_features(case_data).primary_type
        details == GetOrEmpty(case_data.injury_details)
        matched == \E i \in 1..Len(case_data.injury_types) :
                       first_known_injury(1, case_data.injury_types[i]) # ""
    IN  FirstExc(<<FloatExc(damages),
                   IF primary = "personal_injury" /\ ~matched
                   THEN StrMethodExc(details) ELSE "">>)

\* the default multiplier, whatever the severity
severity_multiplier_default(severity) == 150

\* the multiplier of the severity, in hundredths
severity_multiplier(severity) ==
    IF severity > 7 * ONE THEN 400
    ELSE IF severity > 5 * ONE THEN 300
    ELSE IF severity > 3 * ONE THEN 200
    ELSE 150

extract_damage_features(case_data) ==
    LET economic == IF case_data.damages.t = "absent" THEN 0 ELSE case_data.damages.n
        primary == extract_case_type_features(case_data).primary_type
        severity == calculate_injury_severity(case_data.injury_types,
                                              GetOrEmpty(case_data.injury_details))
        multiplier == CASE primary = "personal_injury" -> severity_multiplier(severity)
                        [] primary = "contract_dispute" -> 25
                        [] primary = "employment" -> 100
                        [] OTHER -> 100
        non_economic == IF primary = "unknown" THEN 0
                        ELSE (economic * multiplier) \div 100
    IN  [has |-> TRUE, economic_damages |-> economic,
         estimated_non_economic_damages |-> non_economic,
         total_estimated_damages |-> economic + non_economic,
         damage_multiplier |-> multiplier * (ONE \div 100)]

\* the exception extract_plaintiff_features raises: facts.lower() and
\* injury_details.lower()
plaintiff_exc(case_data) ==
    FirstExc(<<StrMethodExc(GetOrEmpty(case_data.facts)),
               StrMethodExc(GetOrEmpty(case_data.injury_details))>>)

business_indicators == {"company", "corporation", "business"}

government_indicators == {"government", "agency", "department"}

pr_indicators == {"public", "reputation", "media", "news", "press", "scandal", "attention"}

extract_defendant_features(case_data) ==
    LET facts == GetOrEmpty(case_data.facts)
        insured == Truthy(GetOrEmpty(case_data.insurance_company))
    IN  IF AnyIn(business_indicators, facts)
        THEN [has |-> TRUE, insurance_involved |-> insured,
              deep_pockets |->
                  IF AnyIn({"large", "corporation", "multinational"}, facts) THEN 8000
                  ELSE IF AnyIn({"medium", "regional"}, facts) THEN 5000
                  ELSE 3000,
              public_relations_risk |->
                  Min2(ONE, (CountIn(pr_indicators, facts) * ONE) \div 3)]
        ELSE IF AnyIn(government_indicators, facts)
        THEN [has |-> TRUE, insurance_involved |-> insured, deep_pockets |-> 7000,
              public_relations_risk |-> 6000]
        ELSE [has |-> TRUE, insurance_involved |-> insured, deep_pockets |-> 0,
              public_relations_risk |-> 0]

extract_attorney_features(case_data) ==
    LET pm == Truthy(GetOrEmpty(case_data.plaintiff_medical_expert))
        dm == Truthy(GetOrEmpty(case_data.defendant_medical_expert))
        pn == Truthy(GetOrEmpty(case_data.plaintiff_non_medical_expert))
        dn == Truthy(GetOrEmpty(case_data.defendant_non_medical_expert))
        plaintiff == 5000 + (IF pm \/ pn THEN 2000 ELSE 0)
        defendant == 5000 + (IF dm \/ dn THEN 2000 ELSE 0)
    IN  [has |-> TRUE, representation_asymmetry |-> plaintiff - defendant]

\* evidence_types, in the order of the dict
evidence_types ==
    <<{"document", "record", "report", "file", "written"},
      {"witness", "testimony", "statement", "interview"},
      {"physical", "object", "item", "exhibit"},
      {"video", "recording", "email", "message", "digital", "electronic"},
      {"expert", "specialist", "professional opinion"}>>

\* gap_indicators, in the order of the dict
gap_types == <<"no_witnesses", "no_documentation", "no_physical_evidence",
               "conflicting_evidence">>

gap_indicators ==
    <<{"no witness", "lack of witness", "without witness"},
      {"no document", "lack of document", "without document"},
      {"no physical", "lack of physical", "without physical"},
      {"conflict", "contradict", "inconsistent"}>>

extract_evidence_strength(case_data) ==
    LET facts == GetOrEmpty(case_data.facts)
        counts == [i \in 1..Len(evidence_types) |-> CountIn(evidence_types[i], facts)]
        types == Cardinality({i \in 1..Len(counts) : counts[i] > 0})
        diversity_factor == Min2(ONE, (types * ONE) \div 5)
        quantity_factor == Min2(ONE, (SumSeq(counts) * ONE) \div 10)
        base == IF types > 0 THEN (diversity_factor + quantity_factor) \div 2 ELSE 5000
        gap_at == SelectSeq([i \in 1..Len(gap_types) |-> i],
                            LAMBDA i : AnyIn(gap_indicators[i], facts))
        gaps == [k \in 1..Len(gap_at) |-> gap_types[gap_at[k]]]
    IN  [has |-> TRUE, has_overall |-> TRUE,
         overall_strength |-> Clamp(base - 1000 * Len(gaps), 1000, ONE),
         has_gaps |-> TRUE, evidence_gaps |-> gaps]

extract_expert_opinion_features(case_data) ==
    LET pm == Truthy(GetOrEmpty(case_data.plaintiff_medical_expert))
        dm == Truthy(GetOrEmpty(case_data.defendant_medical_expert))
        pn == Truthy(GetOrEmpty(case_data.plaintiff_non_medical_expert))
        dn == Truthy(GetOrEmpty(case_data.defendant_non_medical_expert))
        plaintiff == (IF pm THEN 4000 ELSE 0) + (IF pn THEN 3000 ELSE 0)
        defendant == (IF dm THEN 4000 ELSE 0) + (IF dn THEN 3000 ELSE 0)
    IN  [has |-> TRUE, plaintiff_expert_strength |-> plaintiff,
         defendant_expert_strength |-> defendant,
         expert_advantage |-> plaintiff - defendant]

extract_witness_features(case_data) ==
    LET facts == GetOrEmpty(case_data.facts)
        eyewitness == AnyIn({"eyewitness", "saw", "observed", "witnessed"}, facts)
        expert_witness ==
            AnyIn({"expert witness", "expert testimony", "professional opinion"}, facts)
        positive == CountIn({"consistent", "reliable", "credible", "trustworthy",
                             "unbiased"}, facts)
        negative == CountIn({"inconsistent", "unreliable", "biased", "contradictory",
                             "impeached"}, facts)
        credibility == 5000 + (IF eyewitness THEN 1000 ELSE 0)
                            + (IF expert_witness THEN 1000 ELSE 0)
                            + 1000 * positive - 1000 * negative
    IN  [has |-> TRUE, witness_credibility |-> Clamp(credibility, 1000, ONE)]

\* the stage the facts of a filed case name
stage_of(facts) ==
    IF In("discovery", facts) THEN "discovery"
    ELSE IF In("deposition", facts) THEN "discovery"
    ELSE IF In("motion", facts) /\ In("summary judgment", facts) THEN "dispositive_motions"
    ELSE IF In("pretrial", facts) THEN "pretrial"
    ELSE IF In("trial", facts) THEN "trial"
    ELSE "post_filing"

extract_procedural_posture(case_data) ==
    LET facts == GetOrEmpty(case_data.facts)
        stage == stage_of(facts)
        advantage ==
            CASE stage = "discovery" ->
                    (IF In("plaintiff favorable", facts) \/ In("defendant unfavorable", facts)
                     THEN 2000 ELSE 0)
                  - (IF In("plaintiff unfavorable", facts) \/ In("defendant favorable", facts)
                     THEN 2000 ELSE 0)
              [] stage = "dispositive_motions" ->
                    (IF In("motion denied", facts) /\ In("defendant", facts)
                     THEN 3000 ELSE 0)
                  - (IF In("motion granted", facts) /\ In("defendant", facts)
                     THEN 3000 ELSE 0)
              [] OTHER -> 0
    IN  IF PresentAndTruthy(case_data.date_filed)
        THEN [has |-> TRUE, stage |-> stage, procedural_advantage |-> advantage]
        ELSE [has |-> TRUE, stage |-> "pre_filing", procedural_advantage |-> 0]

\* features: the four groups extracted so far, none of them "composite"
create_settlement_pressure_index(features) ==
    LET temporal == features.temporal
        damages == features.damages
        defendant == features.defendant
        case_type == features.case_type
        trial == IF HasKey(features, "case_characteristics", "temporal") /\ temporal.has_days
                 THEN (IF temporal.time_to_trial_estimate < ONE THEN 3 * ONE
                       ELSE IF temporal.time_to_trial_estimate < 3 * ONE THEN 2 * ONE
                       ELSE IF temporal.time_to_trial_estimate < 6 * ONE THEN ONE
                       ELSE 0)
                 ELSE 0
        sol == IF HasKey(features, "case_characteristics", "temporal")
               THEN (IF temporal.statute_of_limitations_risk = "high" THEN 3 * ONE
                     ELSE IF temporal.statute_of_limitations_risk = "medium" THEN 15000
                     ELSE 0)
               ELSE 0
        time_pressure == 5 * ONE + trial + sol
        high_damages ==
            IF HasKey(features, "case_characteristics", "damages")
            THEN (IF damages.total_estimated_damages > 1000000 THEN 3 * ONE
                  ELSE IF damages.total_estimated_damages > 500000 THEN 2 * ONE
                  ELSE IF damages.total_estimated_damages > 100000 THEN ONE
                  ELSE 0)
            ELSE 0
        relief ==
            IF HasKey(features, "party_specific", "defendant")
            THEN (IF defendant.insurance_involved THEN ONE ELSE 0)
               + (IF defendant.deep_pockets > 7000 THEN ONE ELSE 0)
            ELSE 0
        financial_pressure == 5 * ONE + high_damages - relief
        reputation_pressure ==
            5 * ONE + (IF HasKey(features, "party_specific", "defendant")
                       THEN defendant.public_relations_risk * 5 ELSE 0)
        precedent_pressure ==
            5 * ONE + (IF HasKey(features, "case_characteristics", "case_type")
                       THEN (IF case_type.complexity = "novel" THEN 3 * ONE
                             ELSE IF case_type.complexity = "complex" THEN 15000
                             ELSE 0)
                       ELSE 0)
        factor(pressure) == Min2(10 * ONE, pressure) \div 10
        pressure_index == factor(time_pressure) * 3 + factor(financial_pressure) * 3
                        + factor(reputation_pressure) * 2 + factor(precedent_pressure) * 2
    IN  [has |-> TRUE, overall_index |-> Min2(10 * ONE, pressure_index)]

\* the two strengths and their ratio without max(1.0, min(10.0, ...))
case_strength_ratio_unclamped(features) ==
    LET evidence == IF HasKey(features, "evidence_based", "evidence_strength")
                    THEN (features.evidence_strength.overall_strength - 5000) * 6 ELSE 0
        expert == IF HasKey(features, "evidence_based", "expert_opinion")
                  THEN features.expert_opinion.expert_advantage * 4 ELSE 0
        witness == IF HasKey(features, "evidence_based", "witness")
                   THEN (features.witness.witness_credibility - 5000) * 4 ELSE 0
        procedural == IF HasKey(features, "procedural_strategic", "procedural_posture")
                      THEN features.procedural_posture.procedural_advantage * 3 ELSE 0
        attorney == IF HasKey(features, "party_specific", "attorney")
                    THEN features.attorney.representation_asymmetry * 2 ELSE 0
        shift == evidence + expert + witness + procedural + attorney
    IN  [has |-> TRUE, plaintiff_strength |-> 5 * ONE + shift,
         defendant_strength |-> 5 * ONE - shift,
         strength_ratio |-> IF 5 * ONE - shift > 0
                            THEN ((5 * ONE + shift) * ONE) \div (5 * ONE - shift)
                            ELSE 10 * ONE]

create_case_strength_ratio(features) ==
    LET evidence == IF HasKey(features, "evidence_based", "evidence_strength")
                    THEN (features.evidence_strength.overall_strength - 5000) * 6 ELSE 0
        expert == IF HasKey(features, "evidence_based", "expert_opinion")
                  THEN features.expert_opinion.expert_advantage * 4 ELSE 0
        witness == IF HasKey(features, "evidence_based", "witness")
                   THEN (features.witness.witness_credibility - 5000) * 4 ELSE 0
        procedural == IF HasKey(features, "procedural_strategic", "procedural_posture")
                      THEN features.procedural_posture.procedural_advantage * 3 ELSE 0
        attorney == IF HasKey(features, "party_specific", "attorney")
                    THEN features.attorney.representation_asymmetry * 2 ELSE 0
        shift == evidence + expert + witness + procedural + attorney
        plaintiff_strength == Clamp(5 * ONE + shift, ONE, 10 * ONE)
        defendant_strength == Clamp(5 * ONE - shift, ONE, 10 * ONE)
    IN  [has |-> TRUE, plaintiff_strength |-> plaintiff_strength,
         defendant_strength |-> defendant_strength,
         strength_ratio |-> (plaintiff_strength * ONE) \div defendant_strength]

create_litigation_risk_profile(features) ==
    LET has_type == HasKey(features, "case_characteristics", "case_type")
        complexity == features.case_type.complexity
        strength == features.evidence_strength.overall_strength
        uncertainty_score ==
            5000
          + (IF HasKey(features, "evidence_based", "evidence_strength")
             THEN (IF strength > 8000 THEN -3000
                   ELSE IF strength < 3000 THEN 3000 ELSE 0)
             ELSE 0)
          + (IF has_type
             THEN (IF complexity = "novel" THEN 3000
                   ELSE IF complexity = "complex" THEN 2000 ELSE 0)
             ELSE 0)
        economic == features.damages.economic_damages
        non_economic == features.damages.estimated_non_economic_damages
        aligned ==
            IF HasKey(features, "composite", "settlement_pressure_index")
               /\ HasKey(features, "composite", "case_strength_ratio")
            THEN (IF features.settlement_pressure_index.overall_index > 7 * ONE
                     /\ features.case_strength_ratio.strength_ratio > 15000
                  THEN "favorable"
                  ELSE IF features.settlement_pressure_index.overall_index > 7 * ONE
                          /\ features.case_strength_ratio.strength_ratio < 7000
                  THEN "unfavorable"
                  ELSE "neutral")
            ELSE "neutral"
    IN  [has |-> TRUE,
         outcome_uncertainty |-> IF uncertainty_score > 7000 THEN "high"
                                 ELSE IF uncertainty_score < 3000 THEN "low"
                                 ELSE "medium",
         damage_range_width |->
             IF HasKey(features, "case_characteristics", "damages") /\ economic > 0
             THEN (IF non_economic > 3 * economic THEN "wide"
                   ELSE IF non_economic < economic THEN "narrow"
                   ELSE "medium")
             ELSE "medium",
         precedential_impact |-> IF has_type /\ complexity = "novel" THEN "significant"
                                 ELSE IF has_type /\ complexity = "complex" THEN "moderate"
                                 ELSE "limited",
         cost_benefit_alignment |-> aligned]

\* create_composite_features: each composite is made from the features
\* extracted before, which have no "composite" group yet
create_composite_features(features) ==
    [features EXCEPT !.groups = @ \cup {"composite"},
                     !.settlement_pressure_index = create_settlement_pressure_index(features),
                     !.case_strength_ratio = create_case_strength_ratio(features),
                     !.litigation_risk_profile = create_litigation_risk_profile(features)]

\* the first exception of the extractions, in the order they run; the
\* extractions after extract_plaintiff_features call only what has returned by
\* then, and the composites catch their own exceptions
extract_all_features_exc(case_data) ==
    FirstExc(<<jurisdiction_exc(case_data), case_type_exc(case_data),
               damage_exc(case_data), plaintiff_exc(case_data)>>)

\* clock is datetime.now(), in days
extract_all_features(case_data, clock) ==
    LET extracted ==
            [EmptyFeatures EXCEPT
                !.groups = {"case_characteristics", "party_specific", "evidence_based",
                            "procedural_strategic"},
                !.jurisdiction = extract_jurisdiction_features(case_data),
                !.case_type = extract_case_type_features(case_data),
                !.temporal = extract_temporal_features(case_data, clock),
                !.damages = extract_damage_features(case_data),
                !.defendant = extract_defendant_features(case_data),
                !.attorney = extract_attorney_features(case_data),
                !.evidence_strength = extract_evidence_strength(case_data),
                !.expert_opinion = extract_expert_opinion_features(case_data),
                !.witness = extract_witness_features(case_data),
                !.procedural_posture = extract_procedural_posture(case_data)]
    IN  IF extract_all_features_exc(case_data) # ""
        THEN Raise(extract_all_features_exc(case_data))
        ELSE Ok(create_composite_features(extracted))

\* ------------------------------------------------------------------------
\* ConfidenceScorer
\* ------------------------------------------------------------------------

Dims == {"evidential_confidence", "methodological_confidence",
         "precedential_confidence", "data_adequacy_confidence",
         "stability_confidence"}

\* the order of the keys of the dimension_scores dict
DimOrder == <<"evidential_confidence", "methodological_confidence",
              "precedential_confidence", "data_adequacy_confidence",
              "stability_confidence">>

\* self.default_dimension_weights, in hundredths
default_dimension_weights ==
    [personal_injury |->
        [evidential_confidence |-> 25, methodological_confidence |-> 15,
         precedential_confidence |-> 20, data_adequacy_confidence |-> 25,
         stability_confidence |-> 15],
     contract_dispute |->
        [evidential_confidence |-> 20, methodological_confidence |-> 15,
         precedential_confidence |-> 25, data_adequacy_confidence |-> 20,
         stability_confidence |-> 20],
     employment |->
        [evidential_confidence |-> 20, methodological_confidence |-> 15,
         precedential_confidence |-> 25, data_adequacy_confidence |-> 20,
         stability_confidence |-> 20],
     default |->
        [evidential_confidence |-> 20, methodological_confidence |-> 20,
         precedential_confidence |-> 20, data_adequacy_confidence |-> 20,
         stability_confidence |-> 20]]

\* self.confidence_classifications, in the order of the dict
confidence_classifications ==
    << [lo |-> 9, hi |-> 10, label |-> "Very High Confidence"],
       [lo |-> 7, hi |-> 8,  label |-> "High Confidence"],
       [lo |-> 5, hi |-> 6,  label |-> "Moderate Confidence"],
       [lo |-> 3, hi |-> 4,  label |-> "Low Confidence"],
       [lo |-> 1, hi |-> 2,  label |-> "Very Low Confidence"] >>

\* score_range[0] <= score <= score_range[1], score in hundred-thousandths
InBucket(b, score5) ==
    (b.lo * TEN5) \div 10 <= score5 /\ score5 <= (b.hi * TEN5) \div 10

\* the loop over self.confidence_classifications: the first bucket that
\* contains the score, "Unknown" when the loop ends without a break
RECURSIVE ClassifyFrom(_, _)
ClassifyFrom(i, score5) ==
    IF i > Len(confidence_classifications) THEN "Unknown"
    ELSE IF InBucket(confidence_classifications[i], score5)
         THEN confidence_classifications[i].label
         ELSE ClassifyFrom(i + 1, score5)

Classify(score5) == ClassifyFrom(1, score5)

\* case.get("similarity", 0) of a similar case
SimilarityOrZero(c) == IF c.similarity.t = "absent" THEN 0 ELSE c.similarity.n

\* the exception of sum(case.get("similarity", 0) for case in cases)
SimilaritySumExc(cases) ==
    IF \E i \in 1..Len(cases) : cases[i].similarity.t \in {"null", "str"}
    THEN "TypeError" ELSE ""

\* the similarity of the first case alone
SimilarityOfFirst(cases) == IF cases = <<>> THEN 0 ELSE SimilarityOrZero(cases[1])

RECURSIVE SimilaritySum(_)
SimilaritySum(cases) ==
    IF cases = <<>> THEN 0
    ELSE SimilarityOrZero(Head(cases)) + SimilaritySum(Tail(cases))

critical_fields == <<"title", "claim_type", "facts", "injury_details", "damages">>

valuable_fields == <<"court", "date_filed", "judge", "plaintiff_medical_expert",
                     "defendant_medical_expert">>

\* the fields f of fields with: f not in case_data or not case_data[f]
MissingFields(case_data, fields) ==
    SelectSeq(fields, LAMBDA f : ~PresentAndTruthy(case_data[f]))

\* no valuable field counted
PresentFieldsIgnored(case_data, fields) == 0

\* the number of fields f with: f in case_data and case_data[f]
PresentFields(case_data, fields) ==
    Len(SelectSeq(fields, LAMBDA f : PresentAndTruthy(case_data[f])))

\* key in case_data and len(case_data[key].split()) > 100
LongText(v) == v.t = "str" /\ v.words > 100

\* the exception of: key in case_data and len(case_data[key].split()) ...
SplitIfPresentExc(v) == IF v.t = "absent" THEN "" ELSE StrMethodExc(v)

evidential_score(f) ==
    LET es == f.evidence_strength
        s0 == IF es.has
              THEN (IF es.has_overall THEN es.overall_strength ELSE 5000)
              ELSE 5000
        s1 == IF es.has /\ es.has_gaps THEN s0 - Len(es.evidence_gaps) * 500 ELSE s0
        s2 == IF f.witness.has THEN (s1 + f.witness.witness_credibility) \div 2 ELSE s1
        s3 == IF f.expert_opinion.has
              THEN (s2 + Max2(f.expert_opinion.plaintiff_expert_strength,
                              f.expert_opinion.defendant_expert_strength)) \div 2
              ELSE s2
    IN  IF "evidence_based" \in f.groups THEN Clamp(s3, 1000, ONE) ELSE 5000

methodological_score(f) ==
    LET ct == f.case_type
        s1 == IF ct.primary_type \in {"personal_injury", "contract_dispute", "employment"}
              THEN 8000 ELSE 7000
        s2 == IF ct.complexity = "novel" THEN s1 - 2000
              ELSE IF ct.complexity = "complex" THEN s1 - 1000 ELSE s1
    IN  IF HasKey(f, "case_characteristics", "case_type")
        THEN Clamp(s2, 1000, ONE) ELSE Clamp(7000, 1000, ONE)

\* the similar cases are read from the case record, under its key similar_cases
precedential_score(case_data, f) ==
    LET sc == case_data.similar_cases
        s1 == IF case_data.has_similar_cases /\ sc # <<>>
              THEN 5000 + (IF Len(sc) >= 3 THEN 2000 ELSE 1000)
                        + ((SimilaritySum(sc) \div Len(sc)) * 3) \div 10
              ELSE 5000 - 2000
        j  == f.jurisdiction
        s2 == IF HasKey(f, "case_characteristics", "jurisdiction")
                 /\ j.jurisdiction # "unknown" /\ j.has_data
              THEN s1 + 1000 ELSE s1
    IN  Clamp(s2, 1000, ONE)

\* the data adequacy score without the final max(0.1, min(1.0, ...))
data_adequacy_score_unclamped(case_data) ==
    5000 - Len(MissingFields(case_data, critical_fields)) * 1000
         + PresentFields(case_data, valuable_fields) * 500
         + (IF LongText(case_data.facts) THEN 1000 ELSE 0)
         + (IF LongText(case_data.injury_details) THEN 1000 ELSE 0)

data_adequacy_score(case_data) ==
    LET s == 5000 - Len(MissingFields(case_data, critical_fields)) * 1000
                  + PresentFields(case_data, valuable_fields) * 500
                  + (IF LongText(case_data.facts) THEN 1000 ELSE 0)
                  + (IF LongText(case_data.injury_details) THEN 1000 ELSE 0)
    IN  Clamp(s, 1000, ONE)

stability_score(f) ==
    LET rp == f.litigation_risk_profile
        hasc(k) == HasKey(f, "composite", k)
        a == IF hasc("litigation_risk_profile")
             THEN (IF rp.outcome_uncertainty = "high" THEN -2000
                   ELSE IF rp.outcome_uncertainty = "low" THEN 2000 ELSE 0)
                  + (IF rp.damage_range_width = "wide" THEN -2000
                     ELSE IF rp.damage_range_width = "narrow" THEN 2000 ELSE 0)
             ELSE 0
        idx == f.settlement_pressure_index.overall_index
        b == IF hasc("settlement_pressure_index") /\ (idx > 8 * ONE \/ idx < 2 * ONE)
             THEN -1000 ELSE 0
        r == f.case_strength_ratio.strength_ratio
        c == IF hasc("case_strength_ratio") /\ (r > 3 * ONE \/ r < 3000)
             THEN 1000 ELSE 0
        stage == f.procedural_posture.stage
        d == IF HasKey(f, "procedural_strategic", "procedural_posture")
             THEN (IF stage \in {"trial", "pretrial"} THEN 2000
                   ELSE IF stage \in {"dispositive_motions", "discovery"} THEN 1000
                   ELSE IF stage = "pre_filing" THEN -1000 ELSE 0)
             ELSE 0
    IN  Clamp(5000 + a + b + c + d, 1000, ONE)

\* the exception _calculate_default_dimension_scores raises, "" when it returns
default_dimension_scores_exc(case_data, f) ==
    FirstExc(<<
        IF HasKey(f, "case_characteristics", "case_type") /\ ~f.case_type.has_primary
        THEN "KeyError" ELSE "",
        IF case_data.has_similar_cases THEN SimilaritySumExc(case_data.similar_cases)
        ELSE "",
        SplitIfPresentExc(case_data.facts),
        SplitIfPresentExc(case_data.injury_details) >>)

calculate_default_dimension_scores(case_data, f) ==
    [evidential_confidence     |-> evidential_score(f),
     methodological_confidence |-> methodological_score(f),
     precedential_confidence   |-> precedential_score(case_data, f),
     data_adequacy_confidence  |-> data_adequacy_score(case_data),
     stability_confidence      |-> stability_score(f)]

\* the number of strings _generate_improvement_recommendations returns before
\* the cut to three: the detected gaps first, then the five general ones
recommendation_count(dimension, case_data, f) ==
    5 + (CASE dimension = "evidential_confidence" ->
                IF HasKey(f, "evidence_based", "evidence_strength")
                   /\ f.evidence_strength.has_gaps
                THEN Len(f.evidence_strength.evidence_gaps) ELSE 0
           [] dimension = "methodological_confidence" ->
                IF HasKey(f, "case_characteristics", "case_type")
                   /\ f.case_type.complexity \in {"complex", "novel"}
                THEN 2 ELSE 0
           [] dimension = "precedential_confidence" ->
                IF ~case_data.has_similar_cases \/ case_data.similar_cases = <<>>
                THEN 1 ELSE 0
           [] dimension = "data_adequacy_confidence" ->
                Len(MissingFields(case_data, critical_fields))
                + (IF case_data.facts.t = "str" /\ case_data.facts.words < 100
                   THEN 1 ELSE 0)
                + (IF case_data.injury_details.t = "str"
                      /\ case_data.injury_details.words < 100 THEN 1 ELSE 0)
           [] OTHER ->
                IF HasKey(f, "composite", "litigation_risk_profile")
                THEN (IF f.litigation_risk_profile.outcome_uncertainty = "high"
                      THEN 1 ELSE 0)
                     + (IF f.litigation_risk_profile.damage_range_width = "wide"
                        THEN 1 ELSE 0)
                ELSE 0)

\* len(_generate_improvement_recommendations(...)): at most three are returned
generate_improvement_recommendations(dimension, case_data, f) ==
    Min2(3, recommendation_count(dimension, case_data, f))

\* the exception _generate_improvement_recommendations raises for a dimension
improvement_recommendations_exc(dimension, case_data) ==
    IF dimension = "data_adequacy_confidence"
    THEN FirstExc(<<SplitIfPresentExc(case_data.facts),
                    SplitIfPresentExc(case_data.injury_details)>>)
    ELSE ""

\* the weight table of the default case type, whatever the features
resolved_case_type_ignored(f) == "default"

\* the case type whose weight table is used
resolved_case_type(f) ==
    IF HasKey(f, "case_characteristics", "case_type")
       /\ f.case_type.primary_type \in DOMAIN default_dimension_weights
    THEN f.case_type.primary_type ELSE "default"

\* min(10, max(1, weighted_sum * 10)), in hundred-thousandths
overall_score_of(weighted_sum) == Min2(TEN5, Max2(TEN5 \div 10, weighted_sum))

\* dimension_scores is [given |-> FALSE] or [given |-> TRUE, scores |-> a
\* function from the dimension names to unit scores]
calculate_multi_dimensional_confidence(case_data, f, dimension_scores) ==
    LET exc0 == IF HasKey(f, "case_characteristics", "case_type")
                   /\ ~f.case_type.has_primary THEN "KeyError" ELSE ""
        exc1 == IF dimension_scores.given THEN ""
                ELSE default_dimension_scores_exc(case_data, f)
        scores == IF dimension_scores.given THEN dimension_scores.scores
                  ELSE calculate_default_dimension_scores(case_data, f)
        weights == default_dimension_weights[resolved_case_type(f)]
        weighted_sum == SumSeq([i \in 1..Len(DimOrder) |->
                                   scores[DimOrder[i]] * weights[DimOrder[i]]])
        overall_score == overall_score_of(weighted_sum)
        low == SelectSeq(DimOrder, LAMBDA d : scores[d] < 7000)
        exc2 == FirstExc([i \in 1..Len(low) |->
                             improvement_recommendations_exc(low[i], case_data)])
        exc == FirstExc(<<exc0, exc1, exc2>>)
    IN  IF exc # "" THEN Raise(exc)
        ELSE Ok([dimension_scores |-> scores,
                 dimension_weights |-> weights,
                 overall_confidence_score |-> overall_score,
                 confidence_classification |-> Classify(overall_score),
                 improvement_recommendations |->
                     [d \in {low[i] : i \in 1..Len(low)} |->
                         generate_improvement_recommendations(d, case_data, f)]])

\* ---- statistical confidence intervals ----

\* 1.0 - overall_confidence_score / 10.0, on the unit scale
base_cv(overall_score) == (TEN5 - overall_score) \div 100

stage_factors ==
    [pre_filing |-> 13, post_filing |-> 12, discovery |-> 11,
     dispositive_motions |-> 9, pretrial |-> 8, trial |-> 7]

range_factors == [wide |-> 13, medium |-> 10, narrow |-> 7]

\* the adjusted coefficient of variation of _estimate_prediction_variance
adjusted_cv(f, overall_score) ==
    LET c0 == base_cv(overall_score)
        c1 == IF HasKey(f, "case_characteristics", "case_type")
              THEN (IF f.case_type.complexity = "novel" THEN (c0 * 15) \div 10
                    ELSE IF f.case_type.complexity = "complex" THEN (c0 * 12) \div 10
                    ELSE c0)
              ELSE c0
        es == f.evidence_strength
        c2 == IF HasKey(f, "evidence_based", "evidence_strength")
              THEN (c1 * (15000 - (IF es.has_overall THEN es.overall_strength ELSE 5000)))
                   \div ONE
              ELSE c1
        stage == f.procedural_posture.stage
        c3 == IF HasKey(f, "procedural_strategic", "procedural_posture")
                 /\ stage \in DOMAIN stage_factors
              THEN (c2 * stage_factors[stage]) \div 10 ELSE c2
        width == f.litigation_risk_profile.damage_range_width
        c4 == IF HasKey(f, "composite", "litigation_risk_profile")
                 /\ width \in DOMAIN range_factors
              THEN (c3 * range_factors[width]) \div 10 ELSE c3
    IN  Max2(1000, Min2(2 * ONE, c4))

\* math.sqrt(variance) with variance = (adjusted_cv * point_estimate) ** 2,
\* in dollars: the square root of a square is the absolute value
estimate_std_dev(point_estimate, f, overall_score) ==
    Abs(adjusted_cv(f, overall_score) * point_estimate) \div ONE

\* the coefficient of variation the log-normal branch recomputes from the
\* overall score alone
lognormal_cv(overall_score) == Max2(1000, Min2(ONE, base_cv(overall_score)))

\* sigma = math.sqrt(math.log(1 + cv**2)), on the unit scale
lognormal_sigma(overall_score) ==
    LET cv == lognormal_cv(overall_score)
    IN  SqrtU(LnMantissaU(ONE + (cv * cv) \div ONE))

\* mu = math.log(point_estimate) - sigma**2 / 2, on the unit scale
lognormal_mu(point_estimate, sigma) ==
    LnDollars(point_estimate) - (sigma * sigma) \div (2 * ONE)

Levels == <<"90%", "80%", "50%">>

\* stats.norm.ppf(q) of the upper quantile of a level, in thousandths; the
\* lower quantile is its negative
norm_ppf(level) ==
    CASE level = "90%" -> 1645
      [] level = "80%" -> 1282
      [] level = "50%" -> 674

lognormal_interval(level, mu, sigma) ==
    [lower |-> ExpDollars(mu + (-norm_ppf(level) * sigma) \div 1000),
     upper |-> ExpDollars(mu + (norm_ppf(level) * sigma) \div 1000)]

normal_interval(level, mean, std_dev) ==
    [lower |-> Max2(0, mean + (-norm_ppf(level) * std_dev) \div 1000),
     upper |-> mean + (norm_ppf(level) * std_dev) \div 1000]

\* the factors _generate_interval_interpretation names: the dimensions it
\* checks against 0.6, then the three general ones, cut to the first three
factors_affecting_width(scores) ==
    LET checked == << <<"evidential_confidence", "Limited or uncertain evidence">>,
                      <<"data_adequacy_confidence", "Incomplete case information">>,
                      <<"precedential_confidence", "Limited precedential cases">>,
                      <<"stability_confidence",
                        "High sensitivity to changing assumptions">> >>
        cited == SelectSeq(checked, LAMBDA c : scores[c[1]] < 6000)
        all == [i \in 1..Len(cited) |-> cited[i][2]]
               \o <<"Inherent uncertainty in legal outcomes",
                    "Potential for new evidence to emerge",
                    "Variability in jury/judge decision-making">>
    IN  SubSeq(all, 1, 3)

generate_interval_interpretation(intervals, point_estimate, scores) ==
    LET width_90 == intervals["90%"].upper - intervals["90%"].lower
    IN  [width_90 |->
            IF point_estimate > 0 /\ 2 * width_90 < point_estimate THEN "narrow"
            ELSE IF point_estimate > 0 /\ width_90 < point_estimate THEN "moderate"
            ELSE "wide",
         factors_affecting_width |-> factors_affecting_width(scores)]

\* confidence_assessment is the value calculate_multi_dimensional_confidence returns
calculate_statistical_confidence_intervals(point_estimate, f, confidence_assessment) ==
    LET overall == confidence_assessment.overall_confidence_score
        std_dev == estimate_std_dev(point_estimate, f, overall)
        lognormal == point_estimate > 0
        sigma == lognormal_sigma(overall)
        mu == lognormal_mu(point_estimate, sigma)
        intervals == [l \in {Levels[i] : i \in 1..Len(Levels)} |->
                         IF lognormal THEN lognormal_interval(l, mu, sigma)
                         ELSE normal_interval(l, point_estimate, std_dev)]
    IN  [point_estimate |-> point_estimate,
         distribution_type |-> IF lognormal THEN "log-normal" ELSE "normal",
         distribution_parameters |->
             IF lognormal THEN [mu |-> mu, sigma |-> sigma, mean |-> 0, std_dev |-> 0]
             ELSE [mu |-> 0, sigma |-> 0, mean |-> point_estimate, std_dev |-> std_dev],
         confidence_intervals |-> intervals,
         interval_interpretation |->
             generate_interval_interpretation(intervals, point_estimate,
                                              confidence_assessment.dimension_scores)]

\* ---- similarity-based confidence ----

\* A similar case: [id, similarity, settlement_value, description, metadata].
\* A description is [t, amounts]: amounts are the matches of "$ number" in
\* the text, in order, each with the phrase in front of it (ctx), whether
\* float() can convert the matched digits (ok) and their value (v).
\* metadata is [t, settlement_value, verdict_amount, judgment_amount, ...].

\* the phrase each regex pattern asks for in front of the dollar sign, in the
\* order of the list; "" is the bare "$X" pattern
settlement_patterns ==
    <<"", "settled for", "settlement of", "awarded", "verdict of", "judgment of">>

\* re.findall(pattern, description, re.IGNORECASE)
FindAll(pattern, description) ==
    SelectSeq(description.amounts, LAMBDA a : pattern = "" \/ a.ctx = pattern)

\* the values of the matches float() converts (a ValueError is passed over)
ConvertedValues(matches) ==
    LET good == SelectSeq(matches, LAMBDA a : a.ok)
    IN  [i \in 1..Len(good) |-> good[i].v]

\* the loop over the patterns: the maximum of the first pattern with a
\* converted match; [has |-> FALSE] when no pattern has one
RECURSIVE value_from_description(_, _)
value_from_description(i, description) ==
    IF i > Len(settlement_patterns) THEN [has |-> FALSE, v |-> 0]
    ELSE LET values == ConvertedValues(FindAll(settlement_patterns[i], description))
         IN  IF values # <<>> THEN [has |-> TRUE, v |-> MaxSeq(values)]
             ELSE value_from_description(i + 1, description)

metadata_value_fields == <<"settlement_value", "verdict_amount", "judgment_amount">>

\* the first of the metadata fields that is in the metadata, Absent when none is
RECURSIVE first_metadata_value(_, _)
first_metadata_value(i, metadata) ==
    IF i > Len(metadata_value_fields) THEN Absent
    ELSE IF metadata[metadata_value_fields[i]].t # "absent"
         THEN metadata[metadata_value_fields[i]]
         ELSE first_metadata_value(i + 1, metadata)

\* _extract_settlement_value_from_case: [exc, has, v]; has = FALSE is None
extract_settlement_value_from_case(c) ==
    LET none == [exc |-> "", has |-> FALSE, v |-> 0]
        conv(x) == IF FloatExc(x) # "" THEN [exc |-> FloatExc(x), has |-> FALSE, v |-> 0]
                   ELSE [exc |-> "", has |-> TRUE, v |-> x.n]
        d == IF c.description.t = "str" THEN value_from_description(1, c.description)
             ELSE [has |-> FALSE, v |-> 0]
        m == first_metadata_value(1, c.metadata)
    IN  IF c.settlement_value.t # "absent" THEN conv(c.settlement_value)
        ELSE IF c.description.t = "null"
             THEN [exc |-> "TypeError", has |-> FALSE, v |-> 0]
        ELSE IF d.has THEN [exc |-> "", has |-> TRUE, v |-> d.v]
        ELSE IF c.metadata.t = "null"
             THEN [exc |-> "TypeError", has |-> FALSE, v |-> 0]
        ELSE IF c.metadata.t = "absent" \/ m.t = "absent" THEN none
        ELSE conv(m)

\* the settlement values of the cases that have one, in order
settlement_values_of(cases) ==
    LET found == SelectSeq(cases, LAMBDA c : extract_settlement_value_from_case(c).has)
    IN  [i \in 1..Len(found) |-> extract_settlement_value_from_case(found[i]).v]

RECURSIVE SumSquares(_, _)
SumSquares(values, mean) ==
    IF values = <<>> THEN 0
    ELSE (Head(values) - mean) * (Head(values) - mean) + SumSquares(Tail(values), mean)

\* max(0.0, min(1.0, 1.0 - cv)) with cv = std_dev / mean_value, 0.5 when the
\* mean is not positive
consistency_from_cv(values) ==
    LET mean_value == SumSeq(values) \div Len(values)
        std_dev == ISqrt(SumSquares(values, mean_value) \div Len(values))
        cv == (std_dev * ONE) \div mean_value
    IN  IF mean_value > 0 THEN Max2(0, Min2(ONE, ONE - cv)) ELSE 5000

\* the factor without the comparison of the point estimate with the range
value_consistency_unadjusted(values, point_estimate) ==
    IF Len(values) < 2 THEN 5000 ELSE consistency_from_cv(values)

\* the factor after the comparison of the point estimate with the range of
\* the values
value_consistency_factor(values, point_estimate) ==
    LET f0 == consistency_from_cv(values)
        min_value == MinSeq(values)
        max_value == MaxSeq(values)
    IN  IF Len(values) < 2 THEN 5000
        ELSE IF 2 * point_estimate < min_value \/ 2 * point_estimate > 3 * max_value
             THEN f0 \div 2
        ELSE IF min_value <= point_estimate /\ point_estimate <= max_value
             THEN (f0 * 12) \div 10
        ELSE f0

NoSimilarCasesExplanation ==
    "No similar cases available for comparison, resulting in low confidence."

\* the five sentences of _generate_similarity_confidence_explanation, by kind
similarity_confidence_explanation(case_count, avg_similarity, value_consistency, confidence_score, values, point_estimate) ==
    << IF case_count = 0 THEN "no similar cases"
       ELSE IF case_count = 1 THEN "only one similar case"
       ELSE IF case_count < 3 THEN "some comparative data"
       ELSE "good basis for comparison",
       IF avg_similarity < 3000 THEN "low similarity"
       ELSE IF avg_similarity < 6000 THEN "moderate similarity" ELSE "high similarity",
       IF Len(values) < 2 THEN "insufficient settlement values"
       ELSE IF value_consistency < 3000 THEN "high variability"
       ELSE IF value_consistency < 6000 THEN "moderate consistency"
       ELSE "high consistency",
       IF values = <<>> THEN "no settlement values"
       ELSE IF 2 * point_estimate < MinSeq(values) THEN "significantly lower"
       ELSE IF 2 * point_estimate > 3 * MaxSeq(values) THEN "significantly higher"
       ELSE IF MinSeq(values) <= point_estimate /\ point_estimate <= MaxSeq(values)
            THEN "within the range"
       ELSE "near the range",
       IF confidence_score < 3000 THEN "low confidence"
       ELSE IF confidence_score < 6000 THEN "moderate confidence"
       ELSE "high confidence" >>

\* the exception calculate_similarity_based_confidence raises, "" when none
similarity_based_confidence_exc(similar_cases) ==
    FirstExc([i \in 1..Len(similar_cases) |->
                 extract_settlement_value_from_case(similar_cases[i]).exc]
             \o <<SimilaritySumExc(similar_cases)>>)

\* the result for an empty list of similar cases
no_similar_cases_result ==
    [similarity_confidence_score |-> 3000,
     explanation |-> <<NoSimilarCasesExplanation>>,
     case_count_factor |-> 0,
     similarity_factor |-> 0,
     value_consistency_factor |-> 0,
     similar_case_count |-> 0,
     settlement_value_range |-> [has |-> FALSE, min |-> 0, max |-> 0, mean |-> 0]]

\* the weighted factors of a list of similar cases
similarity_confidence_of_cases(similar_cases, point_estimate) ==
    LET values == settlement_values_of(similar_cases)
        case_count == Len(similar_cases)
        case_count_factor == Min2(ONE, (case_count * ONE) \div 5)
        avg_similarity == IF case_count > 0
                          THEN SimilaritySum(similar_cases) \div case_count ELSE 0
        vcf == value_consistency_factor(values, point_estimate)
        raw == (case_count_factor * 3 + avg_similarity * 4 + vcf * 3) \div 10
        score == Max2(1000, Min2(ONE, raw))
        range == IF values = <<>> THEN [has |-> FALSE, min |-> 0, max |-> 0, mean |-> 0]
                 ELSE [has |-> TRUE, min |-> MinSeq(values), max |-> MaxSeq(values),
                       mean |-> SumSeq(values) \div Len(values)]
    IN  IF similarity_based_confidence_exc(similar_cases) # ""
        THEN Raise(similarity_based_confidence_exc(similar_cases))
        ELSE Ok([similarity_confidence_score |-> score,
                 explanation |->
                     similarity_confidence_explanation(case_count, avg_similarity, vcf,
                                                       score, values, point_estimate),
                 case_count_factor |-> case_count_factor,
                 similarity_factor |-> avg_similarity,
                 value_consistency_factor |-> vcf,
                 similar_case_count |-> case_count,
                 settlement_value_range |-> range])

\* calculate_similarity_based_confidence without its early return
similarity_confidence_without_early_return(similar_cases, point_estimate) ==
    similarity_confidence_of_cases(similar_cases, point_estimate)

calculate_similarity_based_confidence(similar_cases, point_estimate) ==
    IF similar_cases = <<>> THEN Ok(no_similar_cases_result)
    ELSE similarity_confidence_of_cases(similar_cases, point_estimate)

\* ---- consensus confidence ----

\* max(0.1, min(1.0, 1.0 / (1.0 + width_ratio))), 0.5 when the point estimate
\* is not positive
interval_width_ratio(statistical_confidence) ==
    LET i90 == statistical_confidence.confidence_intervals["90%"]
        pe == statistical_confidence.point_estimate
        width_ratio == ((i90.upper - i90.lower) * ONE) \div pe
    IN  IF pe > 0 THEN Max2(1000, Min2(ONE, (ONE * ONE) \div (ONE + width_ratio)))
        ELSE 5000

\* max / min of the components dict by score: the first of equal scores wins
strongest_component(md, st, si) ==
    IF md >= st /\ md >= si THEN "multi-dimensional assessment"
    ELSE IF st >= si THEN "statistical analysis" ELSE "similar case comparison"

weakest_component(md, st, si) ==
    IF md <= st /\ md <= si THEN "multi-dimensional assessment"
    ELSE IF st <= si THEN "statistical analysis" ELSE "similar case comparison"

calculate_consensus_confidence(multi_dimensional_confidence, statistical_confidence, similarity_confidence) ==
    LET multi_dim_score == multi_dimensional_confidence.overall_confidence_score \div 100
        similarity_score == similarity_confidence.similarity_confidence_score
        width_score == interval_width_ratio(statistical_confidence)
        raw == (multi_dim_score * 5 + width_score * 3 + similarity_score * 2) \div 10
        consensus_score == Max2(1000, Min2(ONE, raw))
        consensus_score_10 == consensus_score * 100
    IN  [consensus_confidence_score |-> consensus_score_10,
         confidence_classification |-> Classify(consensus_score_10),
         explanation |->
             [strongest |-> strongest_component(multi_dim_score, width_score,
                                                similarity_score),
              weakest |-> weakest_component(multi_dim_score, width_score,
                                            similarity_score)],
         component_scores |->
             [multi_dimensional |-> multi_dim_score * 100,
              statistical |-> width_score * 100,
              similarity |-> similarity_score * 100]]

\* _get_confidence_color, score in hundred-thousandths
get_confidence_color(score5) ==
    IF score5 >= (9 * TEN5) \div 10 THEN "#2E7D32"
    ELSE IF score5 >= (7 * TEN5) \div 10 THEN "#4CAF50"
    ELSE IF score5 >= (5 * TEN5) \div 10 THEN "#FFC107"
    ELSE IF score5 >= (3 * TEN5) \div 10 THEN "#FF9800"
    ELSE "#F44336"

generate_confidence_visualization_data(consensus_confidence, statistical_confidence) ==
    [confidence_meter |->
        [score |-> consensus_confidence.consensus_confidence_score,
         classification |-> consensus_confidence.confidence_classification,
         color |-> get_confidence_color(consensus_confidence.consensus_confidence_score)],
     confidence_intervals |->
        [point_estimate |-> statistical_confidence.point_estimate,
         intervals |-> statistical_confidence.confidence_intervals]]

\* The similar cases of the precedential dimension are those of the case
\* record (its key similar_cases); the similar_cases argument goes to the
\* similarity-based confidence only.
calculate_combined_confidence(case_data, f, point_estimate, similar_cases) ==
    LET md == calculate_multi_dimensional_confidence(case_data, f, [given |-> FALSE])
        st == calculate_statistical_confidence_intervals(point_estimate, f, md.val)
        si == calculate_similarity_based_confidence(similar_cases, point_estimate)
        cc == calculate_consensus_confidence(md.val, st, si.val)
    IN  IF ~md.ok THEN Raise(md.exc)
        ELSE IF ~si.ok THEN Raise(si.exc)
        ELSE Ok([consensus_confidence |-> cc,
                 multi_dimensional_confidence |-> md.val,
                 statistical_confidence |-> st,
                 similarity_confidence |-> si.val,
                 visualization_data |-> generate_confidence_visualization_data(cc, st)])

\* ------------------------------------------------------------------------
\* Inputs of the ConfidenceScorer specification
\* ------------------------------------------------------------------------

\* the longest list of similar cases
MaxSimilar == 3

NoMetadata ==
    [t |-> "absent", settlement_value |-> Absent, verdict_amount |-> Absent,
     judgment_amount |-> Absent, case_type |-> Absent, jurisdiction |-> Absent,
     damages |-> Absent, injury_types |-> Absent, injury_set |-> {}]

NoDescription == [t |-> "absent", amounts |-> <<>>]

Amount(ctx, v) == [ctx |-> ctx, ok |-> TRUE, v |-> v]

\* "$," : the pattern matches a lone comma, which float() rejects
BadAmount(ctx) == [ctx |-> ctx, ok |-> FALSE, v |-> 0]

Description(amounts) == [t |-> "str", amounts |-> amounts]

SimCase(id, similarity, settlement_value, description, metadata) ==
    [id |-> id, similarity |-> similarity, settlement_value |-> settlement_value,
     description |-> description, metadata |-> metadata]

\* the comparators the scorer is called with
SimilarCaseTemplates ==
    { SimCase("settled50", Num(9000), Absent,
              Description(<<Amount("settled for", 50000)>>), NoMetadata),
      SimCase("awarded70", Num(8000), Absent,
              Description(<<Amount("awarded", 70000)>>), NoMetadata),
      SimCase("direct50", Num(7000), Num(50000), NoDescription, NoMetadata),
      SimCase("bare", Absent, Absent, NoDescription, NoMetadata),
      SimCase("opposite", Num(-9000), Absent, NoDescription, NoMetadata),
      SimCase("nullvalue", Num(6000), Null, NoDescription, NoMetadata),
      SimCase("textvalue", Num(6000), Text(1, {}), NoDescription, NoMetadata),
      SimCase("verdict30", Num(5000), Absent, Description(<<>>),
              [NoMetadata EXCEPT !.t = "dict", !.verdict_amount = Num(30000)]),
      SimCase("two", Num(10000), Absent,
              Description(<<BadAmount(""), Amount("", 10000), Amount("verdict of", 60000)>>),
              NoMetadata) }

RECURSIVE SeqsUpTo(_, _)
SeqsUpTo(S, n) ==
    IF n = 0 THEN {<<>>}
    ELSE LET shorter == SeqsUpTo(S, n - 1)
         IN  shorter \cup {Append(q, x) : q \in {r \in shorter : Len(r) = n - 1}, x \in S}

SimilarCaseLists == SeqsUpTo(SimilarCaseTemplates, MaxSimilar)

\* point estimates, in dollars
PointEstimates == {-60000, -1000, 0, 1000, 20000, 50000, 60000}

\* the scores a caller passes for a dimension
DimScoreValues == {1000, 5500, 10000}

DimScoreInputs ==
    {[given |-> FALSE, scores |-> [d \in Dims |-> 0]]}
    \cup {[given |-> TRUE, scores |-> sc] : sc \in [Dims -> DimScoreValues]}

\* a feature set with every group and key, as extract_all_features builds it
FullFeatures(primary, complexity, strength, gaps, stage, uncertainty, width) ==
    [EmptyFeatures EXCEPT
        !.groups = Groups,
        !.jurisdiction = [has |-> TRUE, jurisdiction |-> "texas", has_data |-> TRUE,
                          jurisdiction_data |-> jurisdiction_data["texas"],
                          venue_type |-> "trial"],
        !.case_type = [has |-> TRUE, has_primary |-> TRUE, primary_type |-> primary,
                       subtype |-> "unknown", complexity |-> complexity],
        !.temporal.has = TRUE, !.damages.has = TRUE, !.defendant.has = TRUE,
        !.attorney.has = TRUE,
        !.evidence_strength = [has |-> TRUE, has_overall |-> TRUE,
                               overall_strength |-> strength, has_gaps |-> TRUE,
                               evidence_gaps |-> gaps],
        !.expert_opinion = [has |-> TRUE, plaintiff_expert_strength |-> 4000,
                            defendant_expert_strength |-> 0, expert_advantage |-> 4000],
        !.witness = [has |-> TRUE, witness_credibility |-> 6000],
        !.procedural_posture = [has |-> TRUE, stage |-> stage,
                                procedural_advantage |-> 0],
        !.settlement_pressure_index.has = TRUE,
        !.case_strength_ratio.has = TRUE,
        !.litigation_risk_profile = [has |-> TRUE, outcome_uncertainty |-> uncertainty,
                                     damage_range_width |-> width,
                                     precedential_impact |-> "limited",
                                     cost_benefit_alignment |-> "neutral"]]

\* the feature sets the scorer is called with: none, full ones, and sparse
\* ones (a group without its keys, a key without its inner keys)
ScorerFeatures ==
    { EmptyFeatures,
      FullFeatures("personal_injury", "standard", 5000, <<>>, "post_filing",
                   "medium", "medium"),
      FullFeatures("personal_injury", "complex", 9000, <<>>, "trial", "low", "narrow"),
      FullFeatures("contract_dispute", "novel", 1000,
                   <<"no_witnesses", "no_documentation", "conflicting_evidence">>,
                   "pre_filing", "high", "wide"),
      FullFeatures("unknown", "standard", 3000, <<"no_witnesses">>, "discovery",
                   "medium", "wide"),
      [EmptyFeatures EXCEPT !.groups = {"evidence_based", "composite"}],
      [EmptyFeatures EXCEPT !.groups = {"evidence_based"},
                            !.evidence_strength.has = TRUE],
      [EmptyFeatures EXCEPT !.groups = {"case_characteristics"},
                            !.case_type.has = TRUE] }

LongFacts == Text(600, {"witness", "document"})

\* the case records the scorer is called with
ScorerCases ==
    { EmptyCase,
      [EmptyCase EXCEPT !.title = Text(3, {}), !.claim_type = Text(4, {"injury"}),
                        !.facts = LongFacts, !.injury_details = Text(120, {}),
                        !.damages = Num(20000),
                        !.court = Text(5, {"district"}), !.date_filed = Text(1, {}),
                        !.judge = Text(2, {})],
      [EmptyCase EXCEPT !.title = Text(3, {}), !.facts = Text(20, {}),
                        !.injury_details = Text(0, {}), !.damages = Num(0)],
      [EmptyCase EXCEPT !.title = Text(3, {}), !.facts = Null,
                        !.injury_details = Null],
      [EmptyCase EXCEPT !.facts = LongFacts, !.has_similar_cases = TRUE,
                        !.similar_cases =
                            <<SimCase("direct50", Num(7000), Num(50000), NoDescription,
                                      NoMetadata)>>] }

\* ------------------------------------------------------------------------
\* State: the call in progress
\* ------------------------------------------------------------------------

\* no call in progress
Idle == [op |-> "idle"]

InitState ==
    /\ now = 0
    /\ pca_initialized = FALSE
    /\ last = Idle
    /\ memo = Idle

\* the caller takes the result
Return ==
    /\ last.op # "idle"
    /\ last' = Idle
    /\ UNCHANGED <<now, pca_initialized, memo>>

CallMultiDimensional ==
    /\ last.op = "idle"
    /\ \E c \in ScorerCases, f \in ScorerFeatures, ds \in DimScoreInputs :
          last' = [op |-> "calculate_multi_dimensional_confidence",
                   case_data |-> c, features |-> f, dimension_scores |-> ds,
                   result |-> calculate_multi_dimensional_confidence(c, f, ds)]
    /\ UNCHANGED <<now, pca_initialized, memo>>

\* the confidence assessment passed in is one calculate_multi_dimensional_confidence
\* returns for the feature set
CallStatistical ==
    /\ last.op = "idle"
    /\ \E pe \in PointEstimates, f \in ScorerFeatures, ds \in DimScoreInputs :
          \E md \in {calculate_multi_dimensional_confidence(EmptyCase, f, ds)} :
              /\ md.ok
              /\ last' = [op |-> "calculate_statistical_confidence_intervals",
                          point_estimate |-> pe, features |-> f,
                          confidence_assessment |-> md.val,
                          result |-> calculate_statistical_confidence_intervals(
                                         pe, f, md.val)]
    /\ UNCHANGED <<now, pca_initialized, memo>>

CallSimilarity ==
    /\ last.op = "idle"
    /\ \E cases \in SimilarCaseLists, pe \in PointEstimates :
          last' = [op |-> "calculate_similarity_based_confidence",
                   similar_cases |-> cases, point_estimate |-> pe,
                   result |-> calculate_similarity_based_confidence(cases, pe)]
    /\ UNCHANGED <<now, pca_initialized, memo>>

CallCombined ==
    /\ last.op = "idle"
    /\ \E c \in ScorerCases, f \in ScorerFeatures, pe \in PointEstimates,
          cases \in SeqsUpTo(SimilarCaseTemplates, 1) :
          last' = [op |-> "calculate_combined_confidence",
                   case_data |-> c, features |-> f, point_estimate |-> pe,
                   similar_cases |-> cases,
                   result |-> calculate_combined_confidence(c, f, pe, cases)]
    /\ UNCHANGED <<now, pca_initialized, memo>>

NextScorer ==
    \/ CallMultiDimensional
    \/ CallStatistical
    \/ CallSimilarity
    \/ CallCombined
    \/ Return

\* the ConfidenceScorer, called with any of its inputs
SpecScorer == InitState /\ [][NextScorer]_vars

\* ------------------------------------------------------------------------
\* The FeatureExtractor, called on case records at the days of a clock
\* ------------------------------------------------------------------------

\* the days the clock runs through
MaxNow == 2

FactsDiscovery ==
    Text(60, {"company", "corporation", "public", "media", "document", "record",
              "witness", "eyewitness", "consistent", "discovery", "plaintiff favorable"})

FactsMotion ==
    Text(30, {"government", "no witness", "witness", "conflict", "inconsistent",
              "consistent", "motion", "summary judgment", "motion denied", "defendant"})

FactsPretrial ==
    Text(12, {"business", "medium", "pretrial", "trial", "expert", "expert witness",
              "witness", "video"})

InjuryClaim == Text(3, {"personal injury", "injury", "car"})

\* 'personal injury - motor vehicle'
MotorVehicleClaim == Text(5, {"personal injury", "injury", "vehicle"})

ContractClaim == Text(3, {"contract", "breach"})

EmploymentClaim == Text(2, {"employment", "harassment"})

\* 'Travis County District Court, Texas'
TravisCourt == Text(5, {"county", "district", "texas"})

\* court names with other cues: some name a state, one a state without data
OtherCourts ==
    { Text(6, {"federal", "district", "california"}),
      Text(4, {"supreme", "appeal", "new york"}),
      Text(5, {"appeal", "circuit", "ohio"}),
      Text(3, {"circuit"}),
      Text(3, {"county", "municipal"}),
      Text(2, {"municipal", "texas"}),
      Text(2, {}) }

\* a case record with every field a str or a number
CompleteCase(claim_type, facts, date_filed, damages) ==
    [EmptyCase EXCEPT !.title = Text(3, {}),
                      !.court = TravisCourt,
                      !.claim_type = claim_type, !.facts = facts,
                      !.date_filed = date_filed, !.damages = damages,
                      !.injury_details = Text(8, {"severe", "surgery", "pain"})]

\* case records: complete ones, and ones with fields absent, null, empty or
\* malformed
ExtractCases ==
    { [CompleteCase(ContractClaim, FactsMotion, Absent, Num(50000)) EXCEPT !.court = court] :
          court \in OtherCourts }
    \cup
    { EmptyCase,
      CompleteCase(InjuryClaim, FactsDiscovery, DateText("%Y-%m-%d", -913), Num(20000)),
      CompleteCase(InjuryClaim, FactsMotion, DateText("%m/%d/%Y", -547), NumText(20000)),
      CompleteCase(InjuryClaim, FactsMotion, DateText("%Y-%m-%d", -914), Num(40000)),
      [CompleteCase(ContractClaim, FactsMotion, DateText("%d-%m-%Y", -400), Num(50000))
          EXCEPT !.defendant_medical_expert = Text(2, {}),
                 !.defendant_non_medical_expert = Text(2, {})],
      CompleteCase(InjuryClaim, FactsPretrial, DateText("%B %d, %Y", -30), Num(0)),
      CompleteCase(ContractClaim, FactsMotion, DateText("%d-%m-%Y", -400), Num(50000)),
      CompleteCase(EmploymentClaim, LongFacts, DateText("%Y-%m-%d", -700), Num(30000)),
      CompleteCase(InjuryClaim, FactsDiscovery, Absent, Num(20000)),
      CompleteCase(InjuryClaim, FactsDiscovery, DateText("%Y/%m/%d", -100), Num(20000)),
      CompleteCase(InjuryClaim, FactsDiscovery, Num(20240101), Num(20000)),
      CompleteCase(InjuryClaim, FactsDiscovery, Text(0, {}), Absent),
      CompleteCase(InjuryClaim, FactsDiscovery, DateText("%Y-%m-%d", -30), Null),
      CompleteCase(InjuryClaim, FactsDiscovery, DateText("%Y-%m-%d", -30), Text(1, {})),
      CompleteCase(Null, FactsDiscovery, DateText("%Y-%m-%d", -30), Num(20000)),
      CompleteCase(Absent, FactsDiscovery, DateText("%Y-%m-%d", -30), Num(20000)),
      CompleteCase(ContractClaim, Null, DateText("%Y-%m-%d", -30), Num(20000)),
      CompleteCase(ContractClaim, Absent, DateText("%Y-%m-%d", -30), Num(20000)),
      CompleteCase(ContractClaim, Text(0, {}), Absent, Num(20000)),
      CompleteCase(ContractClaim, Text(500, {}), Absent, Num(20000)),
      CompleteCase(ContractClaim, Text(501, {}), Absent, Num(20000)),
      CompleteCase(ContractClaim, Text(1000, {}), Absent, Num(20000)),
      CompleteCase(ContractClaim, Text(1001, {}), Absent, Num(20000)),
      [CompleteCase(InjuryClaim, FactsPretrial, DateText("%Y-%m-%d", -30), Num(20000))
          EXCEPT !.injury_details = Null],
      [CompleteCase(InjuryClaim, FactsPretrial, DateText("%Y-%m-%d", -30), Num(20000))
          EXCEPT !.injury_types = <<Text(2, {"spinal"}), Text(1, {"whiplash"}),
                                    Text(1, {})>>,
                 !.insurance_company = Text(2, {}),
                 !.plaintiff_medical_expert = Text(2, {})],
      [CompleteCase(MotorVehicleClaim, FactsPretrial, Absent, Num(20000))
          EXCEPT !.injury_types = <<Text(1, {"whiplash"})>>],
      [CompleteCase(MotorVehicleClaim, FactsPretrial, Absent, Num(20000))
          EXCEPT !.injury_types = <<Text(2, {"soft_tissue"})>>],
      [CompleteCase(MotorVehicleClaim, FactsPretrial, Absent, Num(20000))
          EXCEPT !.injury_types = <<Text(2, {"spinal"})>>],
      [CompleteCase(InjuryClaim, FactsPretrial, DateText("%Y-%m-%d", -30), Num(20000))
          EXCEPT !.court = Num(5)],
      [CompleteCase(InjuryClaim, FactsPretrial, DateText("%Y-%m-%d", -30), Num(20000))
          EXCEPT !.court = Null, !.defendant_medical_expert = Text(2, {}),
                 !.defendant_non_medical_expert = Text(2, {})] }

\* a day passes
Tick ==
    /\ last.op = "idle"
    /\ now < MaxNow
    /\ now' = now + 1
    /\ UNCHANGED <<pca_initialized, last, memo>>

CallExtractAllFeatures ==
    /\ last.op = "idle"
    /\ \E c \in ExtractCases :
          last' = [op |-> "extract_all_features", case_data |-> c, clock |-> now,
                   result |-> extract_all_features(c, now)]
    /\ UNCHANGED <<now, pca_initialized, memo>>

\* the caller takes the feature set and keeps it
ReturnExtracted ==
    /\ last.op = "extract_all_features"
    /\ memo' = last
    /\ last' = Idle
    /\ UNCHANGED <<now, pca_initialized>>

NextExtract ==
    \/ Tick
    \/ CallExtractAllFeatures
    \/ ReturnExtracted

SpecExtract == InitState /\ [][NextExtract]_vars

\* ------------------------------------------------------------------------
\* EnhancedRAGSystem
\* ------------------------------------------------------------------------
\* A match of the index query is [id, score, description, metadata]: score on
\* the unit scale, description the metadata's "description" (Absent when the
\* metadata has none), metadata of the shape of NoMetadata.  A str metadata
\* value is a Text whose only cue is the value.

\* a str with the value s
Str(s) == Text(1, {s})

\* reduce_dimensions: the value of self.pca_initialized after the call;
\* fit_ok says whether self.pca.fit returns
reduce_dimensions(initialized, fit_ok) == initialized \/ fit_ok

\* reduce_dimensions: how the returned vector is made. Before the PCA is
\* initialized, and when pca.transform raises, it is every other dimension of
\* the embedding; otherwise it is the transform of the PCA fitted on the
\* embedding of the first call.
reduced_embedding(initialized, transform_ok) ==
    IF initialized /\ transform_ok THEN "pca.transform" ELSE "embedding[::2]"

\* _get_feature_weights, in hundredths
get_feature_weights(case_type) ==
    CASE case_type = "personal_injury" ->
            [case_type |-> 25, jurisdiction |-> 15, damages |-> 30, injury_types |-> 30]
      [] case_type = "contract_dispute" ->
            [case_type |-> 30, jurisdiction |-> 20, damages |-> 40, injury_types |-> 10]
      [] case_type = "employment" ->
            [case_type |-> 30, jurisdiction |-> 25, damages |-> 25, injury_types |-> 20]
      [] OTHER ->
            [case_type |-> 30, jurisdiction |-> 20, damages |-> 30, injury_types |-> 20]

\* the candidate case made of a match
candidate_case(match) ==
    [id |-> match.id, similarity |-> Num(match.score), settlement_value |-> Absent,
     description |-> IF match.description.t = "absent" THEN Description(<<>>)
                     ELSE match.description,
     metadata |-> match.metadata,
     reranked |-> FALSE, original_similarity |-> 0, feature_similarity |-> 0]

\* the exception the comparison of one candidate raises: the subscripts of
\* extracted_features and float(metadata.get("damages", 0))
rerank_case_exc(case, f) ==
    LET metadata == case.metadata
        has_cc == "case_characteristics" \in f.groups
    IN  FirstExc(<<
          IF metadata.case_type.t # "absent" /\ has_cc
             /\ ~(f.case_type.has /\ f.case_type.has_primary) THEN "KeyError" ELSE "",
          IF metadata.jurisdiction.t # "absent" /\ has_cc /\ ~f.jurisdiction.has
          THEN "KeyError" ELSE "",
          IF metadata.damages.t # "absent" /\ has_cc
          THEN (IF ~f.damages.has THEN "KeyError" ELSE FloatExc(metadata.damages))
          ELSE "" >>)

\* the loop body of _rerank_cases_with_features for one candidate
rerank_case(case, f) ==
    LET metadata == case.metadata
        has_cc == "case_characteristics" \in f.groups
        case_type == IF HasKey(f, "case_characteristics", "case_type")
                     THEN f.case_type.primary_type ELSE "unknown"
        feature_weights == get_feature_weights(case_type)
        vector_similarity == case.similarity.n
        type_compared == metadata.case_type.t # "absent" /\ has_cc
        type_equal == metadata.case_type = Str(f.case_type.primary_type)
        jurisdiction_compared == metadata.jurisdiction.t # "absent" /\ has_cc
        jurisdiction_equal == metadata.jurisdiction = Str(f.jurisdiction.jurisdiction)
        damages_compared == metadata.damages.t # "absent" /\ has_cc
        \* the damages features have no key "total_damages"
        query_damages == 0
        candidate_damages == metadata.damages.n
        damage_ratio == (Min2(query_damages, candidate_damages) * ONE)
                            \div Max2(query_damages, candidate_damages)
        \* the case characteristics have no key "injury_types"
        query_injury_types == {}
        injuries_compared == metadata.injury_types.t # "absent" /\ has_cc
                             /\ query_injury_types # {} /\ metadata.injury_set # {}
        injury_similarity ==
            (Cardinality(query_injury_types \cap metadata.injury_set) * ONE)
                \div Cardinality(query_injury_types \cup metadata.injury_set)
        \* sums of weights times values on the unit scale
        feature_similarity ==
            (IF type_compared /\ type_equal THEN feature_weights.case_type * ONE ELSE 0)
          + (IF jurisdiction_compared /\ jurisdiction_equal
             THEN feature_weights.jurisdiction * ONE ELSE 0)
          + (IF damages_compared /\ query_damages > 0 /\ candidate_damages > 0
             THEN feature_weights.damages * damage_ratio ELSE 0)
          + (IF injuries_compared THEN feature_weights.injury_types * injury_similarity
             ELSE 0)
        feature_weight_sum ==
            (IF type_compared THEN feature_weights.case_type ELSE 0)
          + (IF jurisdiction_compared THEN feature_weights.jurisdiction ELSE 0)
          + (IF damages_compared THEN feature_weights.damages ELSE 0)
          + (IF injuries_compared THEN feature_weights.injury_types ELSE 0)
        normalized_feature_similarity ==
            IF feature_weight_sum > 0 THEN feature_similarity \div feature_weight_sum
            ELSE 0
        combined_similarity ==
            (7 * vector_similarity + 3 * normalized_feature_similarity) \div 10
    IN  [case EXCEPT !.reranked = TRUE,
                     !.original_similarity = vector_similarity,
                     !.feature_similarity = normalized_feature_similarity,
                     !.similarity = Num(combined_similarity)]

\* sorted(cases, key = similarity, reverse = True): a case goes behind the
\* cases of the same similarity that were in front of it
RECURSIVE InsertBySimilarity(_, _)
InsertBySimilarity(sorted, case) ==
    IF sorted = <<>> THEN <<case>>
    ELSE IF Head(sorted).similarity.n >= case.similarity.n
         THEN <<Head(sorted)>> \o InsertBySimilarity(Tail(sorted), case)
         ELSE <<case>> \o sorted

\* the candidates left in the order they were scored in
cases_in_scored_order(cases) == cases

RECURSIVE SortedBySimilarity(_)
SortedBySimilarity(cases) ==
    IF cases = <<>> THEN <<>>
    ELSE InsertBySimilarity(SortedBySimilarity(SubSeq(cases, 1, Len(cases) - 1)),
                            cases[Len(cases)])

\* the list passed to _rerank_cases_with_features after the call: the loop
\* assigns the three keys on the dicts of the list itself
candidate_cases_after_rerank(candidate_cases, f) ==
    IF f.groups = {} THEN candidate_cases
    ELSE [i \in 1..Len(candidate_cases) |-> rerank_case(candidate_cases[i], f)]

rerank_cases_with_features_exc(candidate_cases, f) ==
    IF f.groups = {} THEN ""
    ELSE IF HasKey(f, "case_characteristics", "case_type") /\ ~f.case_type.has_primary
    THEN "KeyError"
    ELSE FirstExc([i \in 1..Len(candidate_cases) |->
                      rerank_case_exc(candidate_cases[i], f)])

rerank_cases_with_features(candidate_cases, f) ==
    IF f.groups = {} THEN candidate_cases
    ELSE SortedBySimilarity([i \in 1..Len(candidate_cases) |->
                                rerank_case(candidate_cases[i], f)])

\* the matches the index returns for a query of top_k * 2
query_matches(index_matches, top_k) ==
    SubSeq(index_matches, 1, Min2(Len(index_matches), top_k * 2))

\* the exception raised inside the try of retrieve_similar_cases, "" when none:
\* the query fails, a match has no metadata, or the re-ranking raises
retrieve_similar_cases_exc(f, top_k, env) ==
    LET matches == query_matches(env.matches, top_k)
    IN  IF ~env.search_ok THEN "PineconeException"
        ELSE IF \E i \in 1..Len(matches) : matches[i].metadata.t # "dict"
        THEN "AttributeError"
        ELSE rerank_cases_with_features_exc(
                 [i \in 1..Len(matches) |-> candidate_case(matches[i])], f)

\* retrieve_similar_cases: the cases returned; env is the index:
\* [search_ok, fit_ok, matches]
retrieve_similar_cases(f, top_k, env) ==
    LET matches == query_matches(env.matches, top_k)
        reranked_cases == rerank_cases_with_features(
                              [i \in 1..Len(matches) |-> candidate_case(matches[i])], f)
    IN  IF retrieve_similar_cases_exc(f, top_k, env) # "" THEN <<>>
        ELSE SubSeq(reranked_cases, 1, Min2(top_k, Len(reranked_cases)))

\* The analysis text is the sequence of the dollar amounts in it, each with
\* the patterns of _extract_settlement_prediction that match up to it (pats,
\* by position in the list), whether float() converts it (ok) and its value.
prediction_pattern_count == 6

default_value == 50000

\* the loop over the patterns: the first match of the first pattern whose
\* first match float() converts
RECURSIVE extract_settlement_prediction_from(_, _)
extract_settlement_prediction_from(i, analysis) ==
    IF i > prediction_pattern_count THEN default_value
    ELSE LET matches == SelectSeq(analysis.amounts, LAMBDA a : i \in a.pats)
         IN  IF matches # <<>> /\ matches[1].ok THEN matches[1].v
             ELSE extract_settlement_prediction_from(i + 1, analysis)

\* only the last pattern, the bare dollar amount, is tried
prediction_of_generic_pattern(analysis) ==
    extract_settlement_prediction_from(prediction_pattern_count, analysis)

extract_settlement_prediction(analysis) ==
    extract_settlement_prediction_from(1, analysis)

\* self.feature_extractor.extract_features(case_data): FeatureExtractor
\* defines no extract_features, so the attribute lookup raises
feature_extractor_extract_features(case_data, clock) == Raise("AttributeError")

\* the dict of the except branch of analyze_case
error_result(exc) ==
    [kind |-> "error", prediction |-> <<"Error analyzing case", exc>>,
     has_settlement_value |-> FALSE, settlement_value |-> 0,
     overall_score |-> 0, classification |-> "Error",
     explanation |-> <<"An error occurred during analysis", exc>>,
     has_detailed_scores |-> FALSE, detailed_scores |-> <<>>,
     similar_cases |-> <<>>, extracted_features |-> EmptyFeatures]

\* the placeholder of analyze_case for an empty list of similar cases
no_similar_cases_response(f) ==
    [kind |-> "no_similar_cases",
     prediction |-> <<"Unable to find similar cases for analysis">>,
     has_settlement_value |-> FALSE, settlement_value |-> 0,
     overall_score |-> 0, classification |-> "Very Low Confidence",
     explanation |-> <<"No similar cases found for comparison.">>,
     has_detailed_scores |-> FALSE, detailed_scores |-> <<>>,
     similar_cases |-> <<>>, extracted_features |-> f]

\* the steps of analyze_case, in the order of the code
analyze_case_steps ==
    <<"extract_features", "generate_embeddings", "retrieve_similar_cases",
      "create_enhanced_prompt", "chat.completions.create",
      "_extract_settlement_prediction", "calculate_combined_confidence">>

\* The try of analyze_case gives [result, steps, pca_initialized]: result is
\* Raise(e) for an exception that leaves the try, steps are the steps begun.
\* env is the collaborators:
\* [embed_ok, search_ok, fit_ok, matches, prompt_ok, generation_ok, analysis]
outcome(result, n, initialized) ==
    [result |-> result, steps |-> SubSeq(analyze_case_steps, 1, n),
     pca_initialized |-> initialized]

\* the result dict of a completed analysis
analysis_result(f, similar_cases, settlement_prediction, scores) ==
    [kind |-> "analysis", prediction |-> <<"analysis">>,
     has_settlement_value |-> TRUE, settlement_value |-> settlement_prediction,
     overall_score |-> scores.consensus_confidence.consensus_confidence_score,
     classification |-> scores.consensus_confidence.confidence_classification,
     explanation |-> scores.consensus_confidence.explanation,
     has_detailed_scores |-> TRUE, detailed_scores |-> scores,
     similar_cases |-> similar_cases, extracted_features |-> f]

\* step 6 and the result: confidence is what calculate_combined_confidence
\* returns or raises
analyze_case_scored(f, similar_cases, settlement_prediction, confidence, initialized) ==
    IF ~confidence.ok THEN outcome(Raise(confidence.exc), 7, initialized)
    ELSE outcome(Ok(analysis_result(f, similar_cases, settlement_prediction,
                                    confidence.val)), 7, initialized)

\* steps 5 and 6 for the settlement prediction of the analysis text
analyze_case_predicted(case_data, f, similar_cases, settlement_prediction, initialized) ==
    analyze_case_scored(f, similar_cases, settlement_prediction,
                        calculate_combined_confidence(case_data, f, settlement_prediction,
                                                      similar_cases),
                        initialized)

\* the placeholder or steps 4 to 6 for the similar cases retrieved
analyze_case_retrieved(case_data, f, env, similar_cases, initialized) ==
    IF similar_cases = <<>>
    THEN outcome(Ok(no_similar_cases_response(f)), 3, initialized)
    ELSE IF ~env.prompt_ok THEN outcome(Raise("Exception"), 4, initialized)
    ELSE IF ~env.generation_ok THEN outcome(Raise("OpenAIError"), 5, initialized)
    ELSE analyze_case_predicted(case_data, f, similar_cases,
                                extract_settlement_prediction(env.analysis), initialized)

\* steps 2 to 6 for what the feature extraction returns or raises
analyze_case_extracted(case_data, extracted, env, initialized) ==
    IF ~extracted.ok THEN outcome(Raise(extracted.exc), 1, initialized)
    ELSE IF ~env.embed_ok THEN outcome(Raise("OpenAIError"), 2, initialized)
    ELSE analyze_case_retrieved(case_data, extracted.val, env,
                                retrieve_similar_cases(extracted.val, 5, env),
                                reduce_dimensions(initialized, env.fit_ok))

\* the body of the try of analyze_case
analyze_case_body(case_data, env, clock, initialized) ==
    analyze_case_extracted(case_data, feature_extractor_extract_features(case_data, clock),
                           env, initialized)

\* the except branch: every exception becomes the error dict
handle_exception(body) ==
    IF body.result.ok THEN body
    ELSE [body EXCEPT !.result = Ok(error_result(body.result.exc))]

\* analyze_case without its except branch: the exception leaves the method
analyze_case_without_handler(case_data, env, clock, initialized) ==
    analyze_case_body(case_data, env, clock, initialized)

analyze_case(case_data, env, clock, initialized) ==
    handle_exception(analyze_case_body(case_data, env, clock, initialized))

\* ------------------------------------------------------------------------
\* The EnhancedRAGSystem and its collaborators
\* ------------------------------------------------------------------------

\* the most matches the index holds
MaxMatches == 3

\* the largest top_k of a retrieval
MaxTopK == 2

Metadata(case_type, jurisdiction, damages) ==
    [NoMetadata EXCEPT !.t = "dict", !.case_type = case_type,
                       !.jurisdiction = jurisdiction, !.damages = damages]

Match(id, score, description, metadata) ==
    [id |-> id, score |-> score, description |-> description, metadata |-> metadata]

\* the vectors of the index, each with its score for the query
IndexMatches ==
    { Match("a", 9000, Description(<<Amount("settled for", 50000)>>),
            Metadata(Str("personal_injury"), Str("texas"), Num(50000))),
      Match("b", 8000, Absent, Metadata(Absent, Absent, Absent)),
      Match("c", 8000, Absent, Metadata(Str("contract_dispute"), Absent, Text(1, {}))),
      Match("d", 7500, Description(<<Amount("awarded", 70000)>>),
            Metadata(Str("contract_dispute"), Str("Texas"), NumText(30000))),
      Match("e", 8000, Absent, Metadata(Absent, Absent, Absent)) }

\* the index answers a query with its matches by decreasing score
ScoreOrdered(q) ==
    \A i \in 1..Len(q), j \in 1..Len(q) : i < j => q[i].score >= q[j].score

\* the lists of up to n different matches, in every order
RECURSIVE MatchListsUpTo(_)
MatchListsUpTo(n) ==
    IF n = 0 THEN {<<>>}
    ELSE LET shorter == MatchListsUpTo(n - 1)
         IN  shorter \cup
             UNION {{Append(q, m) : m \in {x \in IndexMatches :
                                              \A i \in 1..Len(q) : q[i] # x}} :
                    q \in {r \in shorter : Len(r) = n - 1}}

IndexEnvs ==
    [search_ok : BOOLEAN, fit_ok : BOOLEAN, transform_ok : BOOLEAN,
     matches : {q \in MatchListsUpTo(MaxMatches) : ScoreOrdered(q)}]

\* the feature sets a retrieval is called with: {} and extracted ones
RetrievalFeatures ==
    {EmptyFeatures} \cup
    {extract_all_features(c, 0).val :
        c \in {CompleteCase(InjuryClaim, FactsDiscovery, DateText("%Y-%m-%d", -913),
                            Num(20000)),
               CompleteCase(ContractClaim, FactsMotion, DateText("%d-%m-%Y", -400),
                            Num(50000)),
               CompleteCase(EmploymentClaim, LongFacts, DateText("%Y-%m-%d", -700),
                            Num(30000))}}

PredictedAmount(pats, v) == [pats |-> pats, ok |-> TRUE, v |-> v]

\* "most likely settlement value: $60,000"; no amount; "settlement: $, or
\* a settlement range of $10,000 to $30,000"
Analyses ==
    { [amounts |-> <<PredictedAmount({1, 3, 5, 6}, 60000)>>],
      [amounts |-> <<>>],
      [amounts |-> <<[pats |-> {5, 6}, ok |-> FALSE, v |-> 0],
                     PredictedAmount({6}, 10000), PredictedAmount({4, 6}, 30000)>>] }

\* the texts _extract_settlement_prediction is called with: the analyses and
\* "most likely settlement value: $, ... a settlement value of $40,000";
\* "a settlement near $10,000 ... a settlement value of $20,000";
\* "settlement: $,"
PredictionTexts ==
    Analyses \cup
    { [amounts |-> <<[pats |-> {1, 3, 5, 6}, ok |-> FALSE, v |-> 0],
                     PredictedAmount({2, 5, 6}, 40000)>>],
      [amounts |-> <<PredictedAmount({5, 6}, 10000), PredictedAmount({2, 5, 6}, 20000)>>],
      [amounts |-> <<[pats |-> {5, 6}, ok |-> FALSE, v |-> 0]>>] }

\* the collaborators of one analysis
AnalyzeEnvs ==
    [embed_ok : BOOLEAN, search_ok : BOOLEAN, fit_ok : BOOLEAN, prompt_ok : BOOLEAN,
     generation_ok : BOOLEAN, analysis : Analyses,
     matches : {q \in MatchListsUpTo(MaxMatches) :
                   /\ ScoreOrdered(q)
                   /\ q = <<>> \/ (Len(q) = MaxMatches - 1 /\ q[1].id = "a")}]

\* every field the code reads is absent or of its documented type
WellTyped(case_data) ==
    /\ \A k \in {"court", "claim_type", "facts", "injury_details"} :
          case_data[k].t \in {"absent", "str"}
    /\ case_data.damages.t \in {"absent", "num"}
    /\ case_data.date_filed.t \in {"absent", "str"}

AnalyzeCases == {c \in ExtractCases : WellTyped(c) \/ c.damages.t = "null"}

AnalyzeCase ==
    /\ last.op = "idle"
    /\ \E c \in AnalyzeCases, env \in AnalyzeEnvs :
          \E run \in {analyze_case(c, env, now, pca_initialized)} :
              /\ last' = [op |-> "analyze_case", case_data |-> c, env |-> env,
                          result |-> run.result, steps |-> run.steps]
              /\ pca_initialized' = run.pca_initialized
    /\ UNCHANGED <<now, memo>>

RetrieveSimilarCases ==
    /\ last.op = "idle"
    /\ \E f \in RetrievalFeatures, top_k \in 1..MaxTopK, env \in IndexEnvs :
          /\ last' = [op |-> "retrieve_similar_cases", features |-> f,
                      top_k |-> top_k, env |-> env,
                      query_vector |-> reduced_embedding(pca_initialized,
                                                         env.transform_ok),
                      result |-> retrieve_similar_cases(f, top_k, env)]
          /\ pca_initialized' = reduce_dimensions(pca_initialized, env.fit_ok)
    /\ UNCHANGED <<now, memo>>

ExtractSettlementPrediction ==
    /\ last.op = "idle"
    /\ \E analysis \in PredictionTexts :
          last' = [op |-> "_extract_settlement_prediction", analysis |-> analysis,
                   result |-> extract_settlement_prediction(analysis)]
    /\ UNCHANGED <<now, pca_initialized, memo>>

Next ==
    \/ AnalyzeCase
    \/ RetrieveSimilarCases
    \/ ExtractSettlementPrediction
    \/ Return

Spec == InitState /\ [][Next]_vars

\* ------------------------------------------------------------------------
\* Properties of the ConfidenceScorer (SpecScorer)
\* ------------------------------------------------------------------------

\* C1: every result of calculate_multi_dimensional_confidence has its overall
\* score in [1, 10] and, as its classification, the label of the one bucket
\* of the five that contains the score.
C1_ClassificationIsTheBucketOfTheScore ==
    (last.op = "calculate_multi_dimensional_confidence" /\ last.result.ok) =>
        LET score == last.result.val.overall_confidence_score
            label == last.result.val.confidence_classification
            holding == {i \in 1..Len(confidence_classifications) :
                           InBucket(confidence_classifications[i], score)}
        IN  /\ TEN5 \div 10 <= score /\ score <= TEN5
            /\ Cardinality(holding) = 1
            /\ \A i \in holding : confidence_classifications[i].label = label

\* C5: calculate_combined_confidence and its sub-calculations return a result
\* and raise nothing, for case records, feature sets and similar cases whose
\* optional data is missing or null.
C5_ScorerNeverRaises ==
    last.op \in {"calculate_combined_confidence",
                 "calculate_multi_dimensional_confidence",
                 "calculate_similarity_based_confidence"} => last.result.ok

\* the intervals of the last call of calculate_statistical_confidence_intervals
LastIntervals == last.result.confidence_intervals

\* C7: for every point estimate each of the 90%, 80% and 50% intervals has
\* lower <= upper, the 50% interval lies in the 80% interval and the 80% in
\* the 90% interval, and a normal-distribution lower bound is never below 0.
C7_IntervalsOrderedAndNested ==
    last.op = "calculate_statistical_confidence_intervals" =>
        /\ \A l \in DOMAIN LastIntervals : LastIntervals[l].lower <= LastIntervals[l].upper
        /\ LastIntervals["90%"].lower <= LastIntervals["80%"].lower
        /\ LastIntervals["80%"].lower <= LastIntervals["50%"].lower
        /\ LastIntervals["50%"].upper <= LastIntervals["80%"].upper
        /\ LastIntervals["80%"].upper <= LastIntervals["90%"].upper
        /\ last.result.distribution_type = "normal" =>
               \A l \in DOMAIN LastIntervals : LastIntervals[l].lower >= 0

\* C9: for an empty list of similar cases calculate_similarity_based_confidence
\* returns the score 0.3, the three factors 0.0 and the explanation that no
\* similar cases are available, whatever the point estimate.
C9_EmptyListGivesFixedResult ==
    (last.op = "calculate_similarity_based_confidence" /\ last.similar_cases = <<>>) =>
        /\ last.result.ok
        /\ last.result.val.similarity_confidence_score = 3000
        /\ last.result.val.case_count_factor = 0
        /\ last.result.val.similarity_factor = 0
        /\ last.result.val.value_consistency_factor = 0
        /\ last.result.val.explanation = <<NoSimilarCasesExplanation>>

\* a call with an empty list and a negative point estimate has returned
C9_EmptyListCalled ==
    /\ last.op = "calculate_similarity_based_confidence"
    /\ last.similar_cases = <<>>
    /\ last.point_estimate < 0
    /\ last.result.ok

\* C10: the value_consistency_factor calculate_similarity_based_confidence
\* returns lies in [0, 1], also after the halving and after the x1.2 boost.
C10_ValueConsistencyInUnitInterval ==
    (last.op = "calculate_similarity_based_confidence" /\ last.result.ok) =>
        /\ 0 <= last.result.val.value_consistency_factor
        /\ last.result.val.value_consistency_factor <= ONE

\* ------------------------------------------------------------------------
\* Properties of the FeatureExtractor (SpecExtract)
\* ------------------------------------------------------------------------

\* C3: extract_all_features returns a feature set with all its groups and
\* raises nothing, for every case record, also one with absent, null, empty
\* or malformed fields.
C3_ExtractionIsTotal ==
    last.op = "extract_all_features" =>
        /\ last.result.ok
        /\ last.result.val.groups = Groups

\* C6: two calls of extract_all_features on the same case record return the
\* same feature set, whenever they are made.
C6_SameRecordSameFeatures ==
    (/\ last.op = "extract_all_features"
     /\ memo.op = "extract_all_features"
     /\ last.case_data = memo.case_data) => last.result = memo.result

\* ------------------------------------------------------------------------
\* Properties of the EnhancedRAGSystem (Spec)
\* ------------------------------------------------------------------------

\* the search returns at least one match with metadata of numeric damages
UsableMatches(matches) ==
    /\ matches # <<>>
    /\ \A i \in 1..Len(matches) : FloatExc(matches[i].metadata.damages) = ""

\* C2: for a well-typed case record, with both collaborators succeeding and a
\* similar case retrieved, analyze_case runs its steps in the order of the
\* pipeline and returns the combined result: the analysis, the settlement
\* value, the detailed confidence scores, the ranked similar cases and the
\* extracted features, which are not empty.
C2_AnalysisRunsThePipeline ==
    (/\ last.op = "analyze_case"
     /\ WellTyped(last.case_data)
     /\ last.env.embed_ok /\ last.env.search_ok /\ last.env.prompt_ok
     /\ last.env.generation_ok
     /\ UsableMatches(last.env.matches)) =>
        /\ last.steps = analyze_case_steps
        /\ last.result.ok
        /\ last.result.val.kind = "analysis"
        /\ last.result.val.has_settlement_value
        /\ last.result.val.has_detailed_scores
        /\ last.result.val.similar_cases # <<>>
        /\ last.result.val.extracted_features.groups # {}

\* a collaborator of the last analysis fails
CollaboratorFails(env) == ~env.embed_ok \/ ~env.search_ok \/ ~env.generation_ok

C8_RetrievalKeepsTheCandidates ==
    (last.op = "retrieve_similar_cases" /\ last.env.search_ok) =>
        LET candidates == query_matches(last.env.matches, last.top_k)
            returned == last.result
        IN  /\ Len(returned) = Min2(last.top_k, Len(candidates))
            /\ \A i \in 1..Len(returned) :
                  \E j \in 1..Len(candidates) : returned[i].id = candidates[j].id
            /\ \A i, j \in 1..Len(returned) :
                  i # j => returned[i].id # returned[j].id

\* ------------------------------------------------------------------------
\* Further properties of the ConfidenceScorer (SpecScorer)
\* ------------------------------------------------------------------------

\* the five labels of the classification table
FixedLabels ==
    {confidence_classifications[i].label : i \in 1..Len(confidence_classifications)}

\* the consensus of the last call of calculate_combined_confidence
LastConsensus == last.result.val.consensus_confidence

\* C11: the consensus score is 10 x clamp(0.5 x multi-dimensional / 10 +
\* 0.3 x interval score + 0.2 x similarity score, 0.1, 1.0), it lies in
\* [1, 10], and its classification is one of the five labels of the table.
C11_ConsensusScoreAndLabel ==
    (last.op = "calculate_combined_confidence" /\ last.result.ok) =>
        LET parts == LastConsensus.component_scores
            weighted == (parts.multi_dimensional \div 100) * 5
                        + (parts.statistical \div 100) * 3
                        + (parts.similarity \div 100) * 2
        IN  /\ LastConsensus.consensus_confidence_score
                   = 100 * Clamp(weighted \div 10, 1000, ONE)
            /\ TEN5 \div 10 <= LastConsensus.consensus_confidence_score
            /\ LastConsensus.consensus_confidence_score <= TEN5
            /\ LastConsensus.confidence_classification \in FixedLabels

\* the call computes the dimension scores itself
DefaultScoresComputed ==
    /\ last.op = "calculate_multi_dimensional_confidence"
    /\ ~last.dimension_scores.given
    /\ last.result.ok

\* C12: each of the five dimension scores _calculate_default_dimension_scores
\* computes lies in [0.1, 1.0].
C12_DimensionScoresInRange ==
    DefaultScoresComputed =>
        \A d \in Dims :
            /\ 1000 <= last.result.val.dimension_scores[d]
            /\ last.result.val.dimension_scores[d] <= ONE

\* the scores were computed for a record with every critical field missing
\* and a feature set with its evidence group
C12_ScoresOfPoorRecord ==
    /\ DefaultScoresComputed
    /\ Len(MissingFields(last.case_data, critical_fields)) = Len(critical_fields)
    /\ "evidence_based" \in last.features.groups
    /\ last.result.val.dimension_scores.data_adequacy_confidence = 1000

\* the weighted sum of the returned scores under a weight table, x 10
WeightedScore(scores, weights) ==
    SumSeq([i \in 1..Len(DimOrder) |-> scores[DimOrder[i]] * weights[DimOrder[i]]])

\* the table the claim names: that of the extracted primary case type when
\* the table has it, the default one otherwise
ExpectedWeights(f) ==
    IF /\ "case_characteristics" \in f.groups
       /\ f.case_type.has
       /\ f.case_type.primary_type \in {"personal_injury", "contract_dispute", "employment"}
    THEN default_dimension_weights[f.case_type.primary_type]
    ELSE default_dimension_weights["default"]

\* C13: overall_confidence_score = clamp(10 x sum of weight x score, 1, 10)
\* with the weights of the resolved primary case type, the default table when
\* the type is not in the table or not extracted; every table has the five
\* dimension keys and weights that sum to 1.0.
C13_OverallScoreIsWeightedSum ==
    /\ \A t \in DOMAIN default_dimension_weights :
          /\ DOMAIN default_dimension_weights[t] = Dims
          /\ WeightedScore([d \in Dims |-> 1], default_dimension_weights[t]) = 100
    /\ (last.op = "calculate_multi_dimensional_confidence" /\ last.result.ok) =>
          /\ last.result.val.dimension_weights = ExpectedWeights(last.features)
          /\ last.result.val.overall_confidence_score
                 = Clamp(WeightedScore(last.result.val.dimension_scores,
                                       ExpectedWeights(last.features)),
                         TEN5 \div 10, TEN5)

\* a personal injury case was scored with its own table, which gives another
\* score than the default table
C13_ScoredWithOwnTable ==
    /\ last.op = "calculate_multi_dimensional_confidence"
    /\ last.result.ok
    /\ last.features.case_type.primary_type = "personal_injury"
    /\ last.result.val.dimension_weights = default_dimension_weights["personal_injury"]
    /\ last.result.val.overall_confidence_score
           # WeightedScore(last.result.val.dimension_scores,
                           default_dimension_weights["default"])

\* a call with a non-empty list of similar cases has returned
SimilarCasesScored ==
    /\ last.op = "calculate_similarity_based_confidence"
    /\ last.similar_cases # <<>>
    /\ last.result.ok

\* the similarity values of the cases, 0 for a case without one
GivenSimilarities(cases) ==
    [i \in 1..Len(cases) |->
        IF cases[i].similarity.t = "absent" THEN 0 ELSE cases[i].similarity.n]

\* C14: for a non-empty list similarity_confidence_score = clamp(0.3 x
\* case_count_factor + 0.4 x similarity_factor + 0.3 x value_consistency_factor,
\* 0.1, 1.0), with case_count_factor = min(1, count / 5) and similarity_factor
\* the mean of the similarity values; the score lies in [0.1, 1.0].
C14_SimilarityScoreIsWeightedSum ==
    SimilarCasesScored =>
        LET r == last.result.val
            count == Len(last.similar_cases)
        IN  /\ r.case_count_factor = Min2(ONE, (count * ONE) \div 5)
            /\ r.similarity_factor = SumSeq(GivenSimilarities(last.similar_cases)) \div count
            /\ r.similarity_confidence_score
                   = Clamp((3 * r.case_count_factor + 4 * r.similarity_factor
                            + 3 * r.value_consistency_factor) \div 10, 1000, ONE)
            /\ 1000 <= r.similarity_confidence_score
            /\ r.similarity_confidence_score <= ONE

\* two cases of different similarity were scored, and the weighted sum is
\* below the lower limit of the score
C14_WeightedSumBelowLimit ==
    /\ SimilarCasesScored
    /\ Len(last.similar_cases) = 2
    /\ last.similar_cases[1].similarity # last.similar_cases[2].similarity
    /\ 3 * last.result.val.case_count_factor + 4 * last.result.val.similarity_factor
           + 3 * last.result.val.value_consistency_factor < 10 * 1000
    /\ last.result.val.similarity_confidence_score = 1000

\* ------------------------------------------------------------------------
\* Further properties of the EnhancedRAGSystem (Spec)
\* ------------------------------------------------------------------------

\* C15: when the retrieval yields no similar case for a well-typed case
\* record, analyze_case returns the result with classification 'Very Low
\* Confidence', the explanation that no similar cases were found, no similar
\* cases and the extracted features, and does not call the generation.
C15_NoSimilarCasesGivesPlaceholder ==
    (/\ last.op = "analyze_case"
     /\ WellTyped(last.case_data)
     /\ last.env.embed_ok /\ last.env.search_ok
     /\ last.env.matches = <<>>) =>
        /\ last.result.ok
        /\ last.result.val.classification = "Very Low Confidence"
        /\ last.result.val.explanation = <<"No similar cases found for comparison.">>
        /\ last.result.val.similar_cases = <<>>
        /\ last.result.val.extracted_features.groups = Groups
        /\ \A i \in 1..Len(last.steps) : last.steps[i] # "chat.completions.create"

\* C16: the requests on one shared EnhancedRAGSystem are independent: each
\* gives what it gives alone on a fresh instance, and no operation writes
\* state of the instance that a later request reads.
C16_RequestsAreIndependent ==
    /\ pca_initialized = FALSE
    /\ last.op = "retrieve_similar_cases" =>
           last.query_vector = reduced_embedding(FALSE, last.env.transform_ok)

\* ------------------------------------------------------------------------
\* Further properties of the FeatureExtractor (SpecExtract)
\* ------------------------------------------------------------------------

\* extract_all_features has returned a feature set
FeaturesExtracted == last.op = "extract_all_features" /\ last.result.ok

\* the number of words of a field of the case record, 0 unless it is a str
WordsOf(v) == IF v.t = "str" THEN v.words ELSE 0

\* C17: the complexity of the case type is the highest tier whose threshold
\* the word count of the facts meets: 'novel' above 1000 words, 'complex'
\* above 500 and up to 1000 words, 'standard' otherwise.
C17_ComplexityIsHighestTier ==
    FeaturesExtracted =>
        LET words == WordsOf(last.case_data.facts)
        IN  last.result.val.case_type.complexity
                = IF words > 1000 THEN "novel"
                  ELSE IF words > 500 THEN "complex" ELSE "standard"

\* the damage features of the last extraction
LastDamages == last.result.val.damages

\* the claim's multiplier of a personal injury case, on the unit scale
MultiplierOfSeverity(severity) ==
    IF severity > 7 * ONE THEN 4 * ONE
    ELSE IF severity > 5 * ONE THEN 3 * ONE
    ELSE IF severity > 3 * ONE THEN 2 * ONE
    ELSE (3 * ONE) \div 2

\* the case of the scenario: a motor vehicle injury claim with whiplash and
\* damages of 20000
WhiplashScenario ==
    /\ FeaturesExtracted
    /\ last.case_data.claim_type = MotorVehicleClaim
    /\ last.case_data.injury_types = <<Text(1, {"whiplash"})>>
    /\ last.case_data.damages = Num(20000)

\* C18: the damage multiplier of a personal injury case is 1.5, 2.0, 3.0 or
\* 4.0 as the severity is at most 3, above 3, above 5 or above 7; it is 0.25
\* for a contract dispute and 1.0 for employment; the non-economic estimate is
\* economic damages x multiplier and the total is their sum; the whiplash
\* scenario gives motor_vehicle, 2.0, 40000 and 60000.
C18_DamageMultiplier ==
    FeaturesExtracted =>
        LET primary == last.result.val.case_type.primary_type
            severity == calculate_injury_severity(last.case_data.injury_types,
                                                  GetOrEmpty(last.case_data.injury_details))
        IN  /\ primary = "personal_injury" =>
                   LastDamages.damage_multiplier = MultiplierOfSeverity(severity)
            /\ primary = "contract_dispute" => LastDamages.damage_multiplier = ONE \div 4
            /\ primary = "employment" => LastDamages.damage_multiplier = ONE
            /\ primary # "unknown" =>
                   LastDamages.estimated_non_economic_damages
                       = (LastDamages.economic_damages * LastDamages.damage_multiplier) \div ONE
            /\ LastDamages.total_estimated_damages
                   = LastDamages.economic_damages + LastDamages.estimated_non_economic_damages
            /\ WhiplashScenario =>
                   /\ last.result.val.case_type.subtype = "motor_vehicle"
                   /\ severity = 4 * ONE
                   /\ LastDamages.damage_multiplier = 2 * ONE
                   /\ LastDamages.estimated_non_economic_damages = 40000
                   /\ LastDamages.total_estimated_damages = 60000

\* the features of the whiplash scenario were extracted
C18_WhiplashExtracted ==
    /\ WhiplashScenario
    /\ LastDamages.economic_damages = 20000
    /\ LastDamages.total_estimated_damages = 60000

\* the jurisdiction features of the last extraction
LastJurisdiction == last.result.val.jurisdiction

\* the cue of the highest priority in a court name, "" when it has none
FirstVenueCue(court) ==
    LET order == <<"federal", "supreme", "appeal", "district", "circuit", "county",
                   "municipal">>
        present == SelectSeq(order, LAMBDA cue : cue \in court.cues)
    IN  IF present = <<>> THEN "" ELSE Head(present)

\* C19: the venue type is that of the first cue of the court name in the
\* order federal, supreme, appeal, district or circuit, county or municipal,
\* 'unknown' without a cue; the jurisdiction is the state the court names,
\* with its data of the static table; 'Travis County District Court, Texas'
\* gives 'texas', 'trial' and a non-economic damage cap of 750000.
C19_VenueAndJurisdiction ==
    (FeaturesExtracted /\ last.case_data.court.t = "str"
                       /\ last.case_data.court.words > 0) =>
        LET court == last.case_data.court
            cue == FirstVenueCue(court)
        IN  /\ LastJurisdiction.venue_type
                   = CASE cue = "federal" -> "federal"
                       [] cue = "supreme" -> "state_supreme"
                       [] cue = "appeal" -> "appellate"
                       [] cue \in {"district", "circuit"} -> "trial"
                       [] cue \in {"county", "municipal"} -> "local"
                       [] OTHER -> "unknown"
            /\ \A st \in StateNames :
                  st \in court.cues =>
                      /\ LastJurisdiction.jurisdiction = st
                      /\ st \in DOMAIN jurisdiction_data =>
                             LastJurisdiction.jurisdiction_data = jurisdiction_data[st]
                      /\ st \notin DOMAIN jurisdiction_data =>
                             LastJurisdiction.jurisdiction_data = <<>>
            /\ court.cues \cap StateNames = {} =>
                   LastJurisdiction.jurisdiction = "unknown"
            /\ court = TravisCourt =>
                   /\ LastJurisdiction.jurisdiction = "texas"
                   /\ LastJurisdiction.venue_type = "trial"
                   /\ LastJurisdiction.jurisdiction_data.damage_caps.non_economic = 750000

\* the features of a case at 'Travis County District Court, Texas' were
\* extracted
C19_TravisCourtExtracted ==
    /\ FeaturesExtracted
    /\ last.case_data.court = TravisCourt
    /\ LastJurisdiction.jurisdiction = "texas"
    /\ LastJurisdiction.venue_type = "trial"

\* ------------------------------------------------------------------------
\* The data adequacy dimension (SpecScorer)
\* ------------------------------------------------------------------------

\* a field of the case record that is absent or empty
Missing(v) ==
    \/ v.t \in {"absent", "null"}
    \/ v.t = "str" /\ v.words = 0
    \/ v.t = "num" /\ v.n = 0

\* the number of the named fields of the case record that are missing
MissingCount(case_data, names) == Cardinality({k \in names : Missing(case_data[k])})

\* a text field of more than 100 words
Above100Words(v) == v.t = "str" /\ v.words > 100

\* the record of the scenario: no critical field missing, three of the five
\* valuable fields present, facts and injury_details above 100 words
AdequacyScenario ==
    /\ DefaultScoresComputed
    /\ MissingCount(last.case_data, {"title", "claim_type", "facts", "injury_details",
                                     "damages"}) = 0
    /\ MissingCount(last.case_data, {"court", "date_filed", "judge",
                                     "plaintiff_medical_expert",
                                     "defendant_medical_expert"}) = 2
    /\ Above100Words(last.case_data.facts)
    /\ Above100Words(last.case_data.injury_details)

\* C20: data_adequacy_confidence = clamp(0.5 - 0.1 x missing critical fields
\* + 0.05 x valuable fields present + 0.1 for facts above 100 words + 0.1 for
\* injury_details above 100 words, 0.1, 1.0); the scenario gives 0.85.
C20_DataAdequacyFormula ==
    DefaultScoresComputed =>
        LET c == last.case_data
            missing == MissingCount(c, {"title", "claim_type", "facts", "injury_details",
                                        "damages"})
            present == 5 - MissingCount(c, {"court", "date_filed", "judge",
                                            "plaintiff_medical_expert",
                                            "defendant_medical_expert"})
            raw == 5000 - 1000 * missing + 500 * present
                   + (IF Above100Words(c.facts) THEN 1000 ELSE 0)
                   + (IF Above100Words(c.injury_details) THEN 1000 ELSE 0)
        IN  /\ last.result.val.dimension_scores.data_adequacy_confidence
                   = Clamp(raw, 1000, ONE)
            /\ AdequacyScenario =>
                   last.result.val.dimension_scores.data_adequacy_confidence = 8500

\* the record of the scenario was scored
C20_ScenarioScored ==
    /\ AdequacyScenario
    /\ last.result.val.dimension_scores.data_adequacy_confidence = 8500

\* ------------------------------------------------------------------------
\* The value consistency of the comparators (SpecScorer)
\* ------------------------------------------------------------------------

\* the settlement values extracted from the comparators of the last call
LastValues == settlement_values_of(last.similar_cases)

\* the comparators 'settled for $50,000' and 'awarded $70,000' with the point
\* estimate 60000
TwoDescriptionsScenario ==
    /\ SimilarCasesScored
    /\ Len(last.similar_cases) = 2
    /\ last.similar_cases[1].description = Description(<<Amount("settled for", 50000)>>)
    /\ last.similar_cases[2].description = Description(<<Amount("awarded", 70000)>>)
    /\ last.point_estimate = 60000

\* C21: with at least two extracted settlement values the consistency factor
\* is halved when the point estimate is below 0.5 x min or above 1.5 x max,
\* multiplied by 1.2 when min <= point estimate <= max and unchanged
\* otherwise; settlement_value_range gives the min, max and mean of the
\* values; the two descriptions with point estimate 60000 give 50000, 70000,
\* 60000 and a boosted factor.
C21_ConsistencyAdjustedByRange ==
    (SimilarCasesScored /\ Len(LastValues) >= 2) =>
        LET r == last.result.val
            pe == last.point_estimate
            lowest == MinSeq(LastValues)
            highest == MaxSeq(LastValues)
            consistency == consistency_from_cv(LastValues)
        IN  /\ r.settlement_value_range
                   = [has |-> TRUE, min |-> lowest, max |-> highest,
                      mean |-> SumSeq(LastValues) \div Len(LastValues)]
            /\ (2 * pe < lowest \/ 2 * pe > 3 * highest) =>
                   r.value_consistency_factor = consistency \div 2
            /\ (lowest <= pe /\ pe <= highest) =>
                   r.value_consistency_factor = (consistency * 12) \div 10
            /\ (2 * pe >= lowest /\ 2 * pe <= 3 * highest
                /\ ~(lowest <= pe /\ pe <= highest)) =>
                   r.value_consistency_factor = consistency
            /\ TwoDescriptionsScenario =>
                   /\ r.settlement_value_range.min = 50000
                   /\ r.settlement_value_range.max = 70000
                   /\ r.settlement_value_range.mean = 60000
                   /\ r.value_consistency_factor > consistency

\* the two descriptions were scored with the point estimate 60000
C21_TwoDescriptionsScored ==
    /\ TwoDescriptionsScenario
    /\ last.result.val.settlement_value_range.mean = 60000

\* ------------------------------------------------------------------------
\* C22: order of the re-ranked list and the cut to top_k
\* ------------------------------------------------------------------------

\* a retrieval that returned from its try without an exception
CasesRetrieved ==
    /\ last.op = "retrieve_similar_cases"
    /\ retrieve_similar_cases_exc(last.features, last.top_k, last.env) = ""

\* the candidates built from the matches of the last retrieval
LastCandidates ==
    LET matches == query_matches(last.env.matches, last.top_k)
    IN  [i \in 1..Len(matches) |-> candidate_case(matches[i])]

\* what _rerank_cases_with_features returned in the last retrieval
LastReranked == rerank_cases_with_features(LastCandidates, last.features)

\* the place of a case in the retrieved order
RetrievedPlace(id) == CHOOSE i \in 1..Len(LastCandidates) : LastCandidates[i].id = id

\* C22: the list _rerank_cases_with_features returns holds the retrieved
\* candidates by non-increasing similarity, candidates of equal similarity in
\* their retrieved order, and retrieve_similar_cases returns its first top_k.
C22_RerankedSortedStableAndCut ==
    CasesRetrieved =>
        /\ Len(LastReranked) = Len(LastCandidates)
        /\ {LastReranked[i].id : i \in 1..Len(LastReranked)}
               = {LastCandidates[i].id : i \in 1..Len(LastCandidates)}
        /\ \A i \in 1..Len(LastReranked), j \in 1..Len(LastReranked) :
               i < j =>
                  /\ LastReranked[i].similarity.n >= LastReranked[j].similarity.n
                  /\ LastReranked[i].similarity.n = LastReranked[j].similarity.n
                        => RetrievedPlace(LastReranked[i].id)
                              < RetrievedPlace(LastReranked[j].id)
        /\ last.result = SubSeq(LastReranked, 1, Min2(last.top_k, Len(LastReranked)))

\* three candidates re-ranked for two places: the last retrieved comes first
\* and the two of equal similarity follow in their retrieved order
C22_TieBehindPromotedCase ==
    /\ CasesRetrieved
    /\ last.features.groups # {}
    /\ last.top_k = 2
    /\ Len(LastReranked) = 3
    /\ LastReranked[1].id = LastCandidates[3].id
    /\ LastReranked[2].similarity = LastReranked[3].similarity
    /\ LastReranked[2].id = "e"
    /\ Len(last.result) = 2

\* ------------------------------------------------------------------------
\* C23: the settlement prediction read from the analysis text
\* ------------------------------------------------------------------------

PredictionExtracted == last.op = "_extract_settlement_prediction"

\* the patterns, by position, that match the text of the last call
MatchingPatterns ==
    {i \in 1..prediction_pattern_count :
        \E k \in 1..Len(last.analysis.amounts) : i \in last.analysis.amounts[k].pats}

\* the first match of pattern i in the text of the last call
FirstMatch(i) ==
    LET amounts == last.analysis.amounts
        k == CHOOSE k \in 1..Len(amounts) :
                 /\ i \in amounts[k].pats
                 /\ \A h \in 1..(k - 1) : i \notin amounts[h].pats
    IN  amounts[k]

\* the patterns whose first match float() converts
ConvertiblePatterns == {i \in MatchingPatterns : FirstMatch(i).ok}

LeastOf(S) == CHOOSE i \in S : \A j \in S : i <= j

\* C23 as stated: the value returned is the first match of the first pattern
\* that matches, and the default 50000.0 when no pattern matches.
C23_FirstMatchOfFirstMatchingPattern ==
    PredictionExtracted =>
        IF MatchingPatterns = {} THEN last.result = default_value
        ELSE /\ FirstMatch(LeastOf(MatchingPatterns)).ok
             /\ last.result = FirstMatch(LeastOf(MatchingPatterns)).v

\* C23: the patterns are tried in their fixed order and the value returned is
\* the first match of the first pattern whose first match converts to a
\* number; when no pattern has such a first match, the empty text included,
\* the default 50000.0 is returned.
C23_FirstConvertibleFirstMatch ==
    PredictionExtracted =>
        /\ default_value = 50000
        /\ IF ConvertiblePatterns = {} THEN last.result = default_value
           ELSE last.result = FirstMatch(LeastOf(ConvertiblePatterns)).v

\* the first match of the most specific pattern does not convert and the
\* value comes from the second pattern
C23_SecondPatternUsed ==
    /\ PredictionExtracted
    /\ 1 \in MatchingPatterns
    /\ ~FirstMatch(1).ok
    /\ last.result = 40000

\* ------------------------------------------------------------------------
\* C24: the feature similarity of the re-ranking
\* ------------------------------------------------------------------------

\* the damages of the query as extract_all_features reports them
QueryDamages(f) == IF f.damages.has THEN f.damages.total_estimated_damages ELSE 0

\* The normalized feature similarity as the claim describes it: a signal
\* counts, in the weighted sum and in the sum of the weights, when both sides
\* have it; the damages signal is weight * min / max of the two damages.
ClaimedFeatureSimilarity(case, f) ==
    LET metadata == case.metadata
        weights == get_feature_weights(f.case_type.primary_type)
        type_applies == metadata.case_type.t # "absent" /\ f.case_type.has
        jurisdiction_applies == metadata.jurisdiction.t # "absent" /\ f.jurisdiction.has
        damages_apply == metadata.damages.t # "absent" /\ metadata.damages.n > 0
                         /\ QueryDamages(f) > 0
        ratio == (Min2(QueryDamages(f), metadata.damages.n) * ONE)
                    \div Max2(QueryDamages(f), metadata.damages.n)
        weighted ==
            (IF type_applies /\ metadata.case_type = Str(f.case_type.primary_type)
             THEN weights.case_type * ONE ELSE 0)
          + (IF jurisdiction_applies
                /\ metadata.jurisdiction = Str(f.jurisdiction.jurisdiction)
             THEN weights.jurisdiction * ONE ELSE 0)
          + (IF damages_apply THEN weights.damages * ratio ELSE 0)
        weight_sum ==
            (IF type_applies THEN weights.case_type ELSE 0)
          + (IF jurisdiction_applies THEN weights.jurisdiction ELSE 0)
          + (IF damages_apply THEN weights.damages ELSE 0)
    IN  IF weight_sum > 0 THEN weighted \div weight_sum ELSE 0

\* C24: a re-ranked case has the similarity 0.7 * vector + 0.3 * normalized
\* feature similarity, where the feature similarity counts the applicable
\* signals only and, for extracted features with positive damages and a
\* candidate with positive damages, includes weight * min / max of the damages.
C24_FeatureSimilarityOfApplicableSignals ==
    (CasesRetrieved /\ last.features.groups # {}) =>
        \A i \in 1..Len(last.result) :
            LET case == last.result[i]
            IN  /\ case.similarity.n
                      = (7 * case.original_similarity + 3 * case.feature_similarity) \div 10
                /\ case.feature_similarity
                      = ClaimedFeatureSimilarity(case, last.features)

\* ------------------------------------------------------------------------
\* C25: the log-normal sigma and the adjusted coefficient of variation
\* ------------------------------------------------------------------------

\* math.log of x >= 1 on the unit scale
LnUnit(x) ==
    LET k == Log2Floor(x \div ONE)
    IN  k * Ln2U + LnMantissaU(x \div Pow2(k))

\* sqrt(ln(1 + cv^2)) for the adjusted coefficient of variation of the call
SigmaOfAdjustedCv(f, overall_score) ==
    LET cv == adjusted_cv(f, overall_score)
    IN  SqrtU(LnUnit(ONE + (cv * cv) \div ONE))

IntervalsOfPositiveEstimate ==
    /\ last.op = "calculate_statistical_confidence_intervals"
    /\ last.point_estimate > 0

\* C25: for a positive point estimate the sigma of the log-normal
\* distribution comes from the adjusted coefficient of variation, and a
\* feature set with another adjusted coefficient gives other intervals for
\* the same estimate and assessment.
C25_SigmaFromAdjustedCv ==
    IntervalsOfPositiveEstimate =>
        LET overall == last.confidence_assessment.overall_confidence_score
        IN  /\ last.result.distribution_parameters.sigma
                  = SigmaOfAdjustedCv(last.features, overall)
            /\ \A f \in ScorerFeatures :
                   adjusted_cv(f, overall) # adjusted_cv(last.features, overall)
                      => calculate_statistical_confidence_intervals(
                             last.point_estimate, f,
                             last.confidence_assessment).confidence_intervals
                           # last.result.confidence_intervals

\* ------------------------------------------------------------------------
\* C26: the precedential score of a combined assessment
\* ------------------------------------------------------------------------

CombinedScored ==
    /\ last.op = "calculate_combined_confidence"
    /\ last.result.ok

\* the precedential score the claim describes for a list of similar cases
ClaimedPrecedentialScore(similar_cases, f) ==
    LET n == Len(similar_cases)
        s1 == IF n >= 1
              THEN 5000 + (IF n >= 3 THEN 2000 ELSE 1000)
                        + ((SimilaritySum(similar_cases) \div n) * 3) \div 10
              ELSE 5000 - 2000
        s2 == IF HasKey(f, "case_characteristics", "jurisdiction")
                 /\ f.jurisdiction.jurisdiction # "unknown" /\ f.jurisdiction.has_data
              THEN s1 + 1000 ELSE s1
    IN  Clamp(s2, 1000, ONE)

\* C26: the precedential score of calculate_combined_confidence is the one of
\* its similar_cases argument: 0.5 + 0.2 (three cases or more) or + 0.1 (one
\* or two) + 0.3 * mean similarity, 0.5 - 0.2 without cases, + 0.1 with
\* jurisdiction data, clamped to [0.1, 1.0].
C26_PrecedentialScoreOfArgument ==
    CombinedScored =>
        last.result.val.multi_dimensional_confidence.dimension_scores
                .precedential_confidence
            = ClaimedPrecedentialScore(last.similar_cases, last.features)

\* ------------------------------------------------------------------------
\* C27: the cost-benefit alignment of the litigation risk profile
\* ------------------------------------------------------------------------

\* C27: in the features extract_all_features returns, cost_benefit_alignment
\* follows the composites of the same case: "favorable" when overall_index > 7
\* and strength_ratio > 1.5, "unfavorable" when overall_index > 7 and
\* strength_ratio < 0.7, "neutral" otherwise.
C27_AlignmentFollowsComposites ==
    FeaturesExtracted =>
        LET f == last.result.val
            pressure == f.settlement_pressure_index.overall_index
            strength_ratio == f.case_strength_ratio.strength_ratio
        IN  f.litigation_risk_profile.cost_benefit_alignment
              = IF pressure > 7 * ONE /\ strength_ratio > 15000 THEN "favorable"
                ELSE IF pressure > 7 * ONE /\ strength_ratio < 7000 THEN "unfavorable"
                ELSE "neutral"

\* ------------------------------------------------------------------------
\* C28: the factors the interval interpretation cites
\* ------------------------------------------------------------------------

\* the factor the interpretation has for a dimension
FactorOfDimension ==
    [evidential_confidence |-> "Limited or uncertain evidence",
     data_adequacy_confidence |-> "Incomplete case information",
     precedential_confidence |-> "Limited precedential cases",
     stability_confidence |-> "High sensitivity to changing assumptions"]

GenericCaveats ==
    {"Inherent uncertainty in legal outcomes", "Potential for new evidence to emerge",
     "Variability in jury/judge decision-making"}

\* the factors cited by the last interval calculation
CitedFactors ==
    LET cited == last.result.interval_interpretation.factors_affecting_width
    IN  {cited[i] : i \in 1..Len(cited)}

\* C28: factors_affecting_width cites every confidence dimension whose score
\* is below 0.6, whichever of the five they are, and generic caveats besides.
C28_EveryLowDimensionCited ==
    (last.op = "calculate_statistical_confidence_intervals") =>
        LET scores == last.confidence_assessment.dimension_scores
            below == {d \in Dims : scores[d] < 6000}
        IN  /\ \A d \in below \cap DOMAIN FactorOfDimension :
                   FactorOfDimension[d] \in CitedFactors
            /\ Cardinality(CitedFactors \ GenericCaveats) >= Cardinality(below)
            /\ CitedFactors \cap GenericCaveats # {}

\* ------------------------------------------------------------------------
\* C29: the candidates after the re-ranking
\* ------------------------------------------------------------------------

\* C29: the re-ranking reads its candidates only: after the call each input
\* candidate has the fields and the similarity it had before, and re-ranking
\* the returned list once more gives the same scores in the same order.
C29_CandidatesUnchangedByRerank ==
    CasesRetrieved =>
        /\ candidate_cases_after_rerank(LastCandidates, last.features) = LastCandidates
        /\ rerank_cases_with_features(LastReranked, last.features) = LastReranked

\* ------------------------------------------------------------------------
\* C30: the case strength ratio
\* ------------------------------------------------------------------------

\* the sum of the deltas the plaintiff's strength receives; the defendant's
\* receives the opposite
StrengthShift(f) ==
    (f.evidence_strength.overall_strength - 5000) * 6
  + f.expert_opinion.expert_advantage * 4
  + (f.witness.witness_credibility - 5000) * 4
  + f.procedural_posture.procedural_advantage * 3
  + f.attorney.representation_asymmetry * 2

\* C30: both strengths start at 5.0, take the same deltas with opposite signs
\* and are clamped to [1, 10] only at the end; the defendant's strength is
\* never 0 and strength_ratio is plaintiff / defendant, within [0.1, 10].
C30_StrengthsClampedThenDivided ==
    FeaturesExtracted =>
        LET r == last.result.val.case_strength_ratio
            shift == StrengthShift(last.result.val)
        IN  /\ r.plaintiff_strength = Max2(ONE, Min2(10 * ONE, 5 * ONE + shift))
            /\ r.defendant_strength = Max2(ONE, Min2(10 * ONE, 5 * ONE - shift))
            /\ r.plaintiff_strength >= ONE /\ r.plaintiff_strength <= 10 * ONE
            /\ r.defendant_strength >= ONE /\ r.defendant_strength <= 10 * ONE
            /\ r.strength_ratio = (r.plaintiff_strength * ONE) \div r.defendant_strength
            /\ r.strength_ratio >= ONE \div 10 /\ r.strength_ratio <= 10 * ONE

\* the deltas take the plaintiff below 1: the strength is raised to 1 and
\* divided by the defendant's 9.7
C30_PlaintiffStrengthClamped ==
    /\ FeaturesExtracted
    /\ 5 * ONE + StrengthShift(last.result.val) < ONE
    /\ last.result.val.case_strength_ratio.plaintiff_strength = ONE
    /\ last.result.val.case_strength_ratio.defendant_strength = 97000
    /\ last.result.val.case_strength_ratio.strength_ratio = 1030

====
